---- MODULE Spec2Model ----
(***************************************************************************)
(* Wall-panel quality control: the deterministic rule engine               *)
(* (tools/deterministic_checker.py), the violation merger                  *)
(* (tools/violation_merger.py) and the remediation applier                 *)
(* (tools/remediation_applier.py).                                         *)
(*                                                                         *)
(* Lengths are integers (an abstract unit for the rule engine, millimetres *)
(* for the remediation runs); Python dicts are functions                   *)
(* whose DOMAIN is the set of keys present; Python lists are sequences     *)
(* (index i of the code is index i + 1 here); a call that raises is the    *)
(* outcome Raise(exception name).                                          *)
(***************************************************************************)
EXTENDS Integers, Sequences, FiniteSets, TLC

VARIABLES
    panel,        \* the PanelData under review
    rules,        \* the rule table (building codes dict)
    ret,          \* outcome of the last call of a single check function
    det_result,   \* outcome of the last run_deterministic_checks call
    prev_result,  \* outcome of the run_deterministic_checks call before it
    llm_result,   \* outcome of the analysis collaborator (its result dict)
    merged,       \* outcome of the last ViolationMerger.merge call
    saved_remediation,  \* the remediation record (remediation_data of main.py)
    fixed,        \* outcome of apply_fixes on the panel
    bracing,      \* outcome of get_bracing_elements
    refixed,      \* outcome of apply_fixes on the panel that apply_fixes returned
    rechecked,    \* outcome of run_deterministic_checks on the panel apply_fixes returned
    batch,        \* the panel objects of a batch handed to concurrent workers
    worker        \* per worker: its place in its job and the results it holds

vars == <<panel, rules, ret, det_result, prev_result, llm_result, merged,
          saved_remediation, fixed, bracing, refixed, rechecked, batch, worker>>

(***************************************************************************)
(* Bounds of the model.                                                    *)
(***************************************************************************)
MaxStuds == 3
MaxOpenings == 2
MaxDucts == 2
MaxMixed == 2
MaxExternal == 3
MaxFixStuds == 4
MaxFixOpenings == 2
MaxViolations == 2
MaxWorkers == 2

(***************************************************************************)
(* Generic helpers: dicts, call outcomes, sequences.                       *)
(***************************************************************************)
HasKey(d, k) == k \in DOMAIN d

Without(d, k) == [a \in DOMAIN d \ {k} |-> d[a]]

\* dict.get(k, default)
Get(d, k, default) == IF k \in DOMAIN d THEN d[k] ELSE default

None == "<None>"

Ok(v) == [raised |-> FALSE, exc |-> "", value |-> v]

Raise(e) == [raised |-> TRUE, exc |-> e, value |-> <<>>]

NotCalled == [op |-> "none", raised |-> FALSE, exc |-> "", value |-> <<>>]

Called(name, outcome) ==
    [op |-> name, raised |-> outcome.raised, exc |-> outcome.exc, value |-> outcome.value]

Abs(n) == IF n < 0 THEN -n ELSE n

Range(seq) == {seq[k] : k \in DOMAIN seq}

RECURSIVE SeqsUpTo(_, _)
SeqsUpTo(S, n) ==
    IF n = 0 THEN {<<>>}
    ELSE LET shorter == SeqsUpTo(S, n - 1)
         IN  shorter \cup {Append(s, x) : s \in {t \in shorter : Len(t) = n - 1}, x \in S}

(***************************************************************************)
(* The data model (deterministic_checker.py, classes Stud .. SeverityLevel) *)
(***************************************************************************)
Stud(id, pos) == [stud_id |-> id, position_mm |-> pos, width_mm |-> 2, depth_mm |-> 2]

Opening(id, type, pos, width, jack, header, corner) ==
    [opening_id |-> id, opening_type |-> type, position_mm |-> pos, width_mm |-> width,
     height_mm |-> 3, has_jack_studs |-> jack, has_header |-> header, is_corner |-> corner]

Duct(id, pos, diameter, clearance) ==
    [duct_id |-> id, position_mm |-> pos, diameter_mm |-> diameter,
     clearance_from_stud_mm |-> clearance]

PanelData(id, width, studs, openings, ducts, zone) ==
    [panel_id |-> id, name |-> "Panel " \o id, width_mm |-> width, height_mm |-> 8,
     studs |-> studs, openings |-> openings, ducts |-> ducts, seismic_zone |-> zone]

SeverityValues == {"low", "medium", "high", "critical"}

\* a severity that ignores the configured value
severity_always_high(x) == Ok("high")

\* SeverityLevel(x): the enum lookup raises ValueError for an unknown value
SeverityLevel(x) == IF x \in SeverityValues THEN Ok(x) ELSE Raise("ValueError")

DeterministicViolation(vid, rid, element, vtype, severity, expected, actual, unit, reason) ==
    [violation_id |-> vid, rule_id |-> rid, element |-> element, violation_type |-> vtype,
     severity |-> severity, expected |-> expected, actual |-> actual, unit |-> unit,
     passed |-> FALSE, reason |-> reason]

(***************************************************************************)
(* check_stud_spacing                                                      *)
(***************************************************************************)
\* a tolerance test that also flags a deviation equal to the tolerance
spacing_violated_inclusive(actual_spacing, std_spacing, tolerance) ==
    Abs(actual_spacing - std_spacing) >= tolerance

\* line 103: the strict tolerance test
spacing_violated(actual_spacing, std_spacing, tolerance) ==
    Abs(actual_spacing - std_spacing) > tolerance

RECURSIVE spacing_loop(_, _, _, _, _, _)
spacing_loop(p, spacing_rule, std_spacing, tolerance, i, violations) ==
    IF i > Len(p.studs) - 1 THEN Ok(violations)
    ELSE LET actual_spacing == p.studs[i + 1].position_mm - p.studs[i].position_mm
         IN  IF spacing_violated(actual_spacing, std_spacing, tolerance)
             THEN IF ~HasKey(spacing_rule, "id") THEN Raise("KeyError")
                  ELSE LET sev == SeverityLevel(Get(spacing_rule, "severity", "high"))
                       IN  IF sev.raised THEN sev
                           ELSE spacing_loop(p, spacing_rule, std_spacing, tolerance, i + 1,
                                    Append(violations, DeterministicViolation(
                                        "STUD_" \o ToString(i - 1) \o "_" \o ToString(i),
                                        spacing_rule.id,
                                        "Studs " \o p.studs[i].stud_id \o " to "
                                            \o p.studs[i + 1].stud_id,
                                        "spacing", sev.value, std_spacing, actual_spacing, "mm",
                                        "Spacing " \o ToString(actual_spacing)
                                            \o "mm exceeds tolerance of +-" \o ToString(tolerance)
                                            \o "mm (expected " \o ToString(std_spacing) \o "mm)")))
             ELSE spacing_loop(p, spacing_rule, std_spacing, tolerance, i + 1, violations)

\* check_stud_spacing without the guard of lines 94-95
check_stud_spacing_unguarded(p, r) ==
    IF ~HasKey(r, "stud_spacing") THEN Raise("KeyError")
    ELSE IF ~HasKey(r["stud_spacing"], "rules") THEN Raise("KeyError")
    ELSE IF Len(r["stud_spacing"]["rules"]) = 0 THEN Raise("IndexError")
    ELSE IF ~HasKey(r["stud_spacing"], "standard_spacing_mm") THEN Raise("KeyError")
    ELSE IF ~HasKey(r["stud_spacing"], "tolerance_mm") THEN Raise("KeyError")
    ELSE spacing_loop(p, r["stud_spacing"]["rules"][1],
                      r["stud_spacing"]["standard_spacing_mm"],
                      r["stud_spacing"]["tolerance_mm"], 1, <<>>)

\* a check that reads the first two studs before it loops
check_stud_spacing_needs_pair(p, r) ==
    IF ~HasKey(r, "stud_spacing") \/ ~HasKey(r["stud_spacing"], "rules") THEN Ok(<<>>)
    ELSE IF Len(p.studs) < 2 THEN Raise("IndexError")
    ELSE spacing_loop(p, r["stud_spacing"]["rules"][1],
                      r["stud_spacing"]["standard_spacing_mm"],
                      r["stud_spacing"]["tolerance_mm"], 1, <<>>)

check_stud_spacing(p, r) ==
    IF ~HasKey(r, "stud_spacing") \/ ~HasKey(r["stud_spacing"], "rules") THEN Ok(<<>>)
    ELSE IF Len(r["stud_spacing"]["rules"]) = 0 THEN Raise("IndexError")
    ELSE IF ~HasKey(r["stud_spacing"], "standard_spacing_mm") THEN Raise("KeyError")
    ELSE IF ~HasKey(r["stud_spacing"], "tolerance_mm") THEN Raise("KeyError")
    ELSE spacing_loop(p, r["stud_spacing"]["rules"][1],
                      r["stud_spacing"]["standard_spacing_mm"],
                      r["stud_spacing"]["tolerance_mm"], 1, <<>>)

(***************************************************************************)
(* check_window_support                                                    *)
(***************************************************************************)
\* a support test that forgets the opening type
window_unsupported_any_type(opening, threshold) ==
    /\ opening.width_mm < threshold
    /\ (~opening.has_jack_studs \/ ~opening.has_header)

\* lines 131-132: a narrow window lacking jack studs or a header
window_unsupported(opening, threshold) ==
    /\ opening.opening_type = "window" /\ opening.width_mm < threshold
    /\ (~opening.has_jack_studs \/ ~opening.has_header)

RECURSIVE window_loop(_, _, _, _, _)
window_loop(p, window_rule, threshold, i, violations) ==
    IF i > Len(p.openings) THEN Ok(violations)
    ELSE LET opening == p.openings[i]
         IN  IF window_unsupported(opening, threshold)
             THEN IF ~HasKey(window_rule, "id") THEN Raise("KeyError")
                  ELSE LET sev == SeverityLevel(Get(window_rule, "severity", "critical"))
                       IN  IF sev.raised THEN sev
                           ELSE window_loop(p, window_rule, threshold, i + 1,
                                    Append(violations, DeterministicViolation(
                                        "WINDOW_" \o opening.opening_id,
                                        window_rule.id, opening.opening_id,
                                        "support", sev.value, 1, 0, "boolean",
                                        "Window missing jack studs or header")))
             ELSE window_loop(p, window_rule, threshold, i + 1, violations)

check_window_support(p, r) ==
    IF ~HasKey(r, "openings") \/ ~HasKey(r["openings"], "rules") THEN Ok(<<>>)
    ELSE IF Len(r["openings"]["rules"]) = 0 THEN Raise("IndexError")
    ELSE IF ~HasKey(r["openings"]["rules"][1], "width_threshold_mm") THEN Raise("KeyError")
    ELSE window_loop(p, r["openings"]["rules"][1],
                     r["openings"]["rules"][1]["width_threshold_mm"], 1, <<>>)

(***************************************************************************)
(* check_duct_clearance                                                    *)
(***************************************************************************)
\* the geometric clearance of rule_checker_tool.py (_check_ducts) in place of the stored one
duct_clearance_geometric(p, duct) ==
    IF p.studs = <<>> THEN duct.clearance_from_stud_mm
    ELSE LET geometric(stud) == Abs(duct.position_mm - stud.position_mm)
                                    - (stud.width_mm \div 2) - (duct.diameter_mm \div 2)
             i == CHOOSE a \in DOMAIN p.studs :
                      \A b \in DOMAIN p.studs : geometric(p.studs[a]) <= geometric(p.studs[b])
         IN  geometric(p.studs[i])

\* lines 160, 168: the clearance the check reads is the one stored on the Duct record
duct_clearance(p, duct) == duct.clearance_from_stud_mm

\* line 160: strictly below the minimum
clearance_violated(clearance, min_clearance) == clearance < min_clearance

RECURSIVE duct_loop(_, _, _, _, _)
duct_loop(p, clearance_rule, min_clearance, i, violations) ==
    IF i > Len(p.ducts) THEN Ok(violations)
    ELSE LET duct == p.ducts[i]
             clearance == duct_clearance(p, duct)
         IN  IF clearance_violated(clearance, min_clearance)
             THEN IF ~HasKey(clearance_rule, "id") THEN Raise("KeyError")
                  ELSE LET sev == SeverityLevel(Get(clearance_rule, "severity", "high"))
                       IN  IF sev.raised THEN sev
                           ELSE duct_loop(p, clearance_rule, min_clearance, i + 1,
                                    Append(violations, DeterministicViolation(
                                        "DUCT_" \o duct.duct_id,
                                        clearance_rule.id, duct.duct_id,
                                        "clearance", sev.value, min_clearance,
                                        clearance, "mm",
                                        "Clearance " \o ToString(clearance)
                                            \o "mm below minimum " \o ToString(min_clearance)
                                            \o "mm")))
             ELSE duct_loop(p, clearance_rule, min_clearance, i + 1, violations)

check_duct_clearance(p, r) ==
    IF ~HasKey(r, "mep_clearance") \/ ~HasKey(r["mep_clearance"], "rules") THEN Ok(<<>>)
    ELSE IF Len(r["mep_clearance"]["rules"]) = 0 THEN Raise("IndexError")
    ELSE IF ~HasKey(r["mep_clearance"], "duct_to_stud_mm") THEN Raise("KeyError")
    ELSE duct_loop(p, r["mep_clearance"]["rules"][1],
                   r["mep_clearance"]["duct_to_stud_mm"], 1, <<>>)

(***************************************************************************)
(* run_deterministic_checks                                                *)
(***************************************************************************)
DeterministicCheckResult(id, violations, passed, summary) ==
    [panel_id |-> id, violations |-> violations, pass_fail |-> passed, summary |-> summary]

\* the checks gathered in another order
concat_checks_support_first(spacing, support, clearance) == support \o spacing \o clearance

\* the spacing violations gathered twice
concat_checks_spacing_twice(spacing, support, clearance) ==
    spacing \o spacing \o support \o clearance

\* lines 180-182: the fixed order of concatenation
concat_checks(spacing, support, clearance) == spacing \o support \o clearance

\* a pass that tolerates a single violation
all_passed_lenient(all_violations) == Len(all_violations) <= 1

\* line 184
all_passed(all_violations) == Len(all_violations) = 0

\* lines 179-192: the outcomes of the three checks gathered into one result
gather_checks(p, spacing, support, clearance) ==
    IF spacing.raised THEN spacing
    ELSE IF support.raised THEN support
    ELSE IF clearance.raised THEN clearance
    ELSE LET all_violations == concat_checks(spacing.value, support.value, clearance.value)
             passed == all_passed(all_violations)
             summary == IF passed THEN "PASS"
                        ELSE "FAIL - " \o ToString(Len(all_violations)) \o " violations"
         IN  Ok(DeterministicCheckResult(p.panel_id, all_violations, passed, summary))

run_deterministic_checks(p, r) ==
    gather_checks(p, check_stud_spacing(p, r), check_window_support(p, r),
                  check_duct_clearance(p, r))

\* DeterministicCheckResult.to_dict
to_dict(result) ==
    [panel_id |-> result.panel_id, violations |-> result.violations,
     pass_fail |-> result.pass_fail, summary |-> result.summary]

(***************************************************************************)
(* ViolationMerger.merge (violation_merger.py)                             *)
(***************************************************************************)
\* a merger that keeps every external violation, duplicates included
llm_only_unfiltered(det_violations, llm_violations) == llm_violations

\* a merger that also drops an external violation whose id an earlier external one has
llm_only_distinct(det_violations, llm_violations) ==
    LET id(k) == Get(llm_violations[k], "violation_id", None)
        keep == {k \in DOMAIN llm_violations :
                    /\ id(k) \notin Range(det_violations)
                    /\ \A j \in 1..(k - 1) : id(j) # id(k)}
        nth(n) == CHOOSE k \in keep : Cardinality({j \in keep : j <= k}) = n
    IN  [n \in 1..Cardinality(keep) |-> llm_violations[nth(n)]]

\* line 26: the external violations whose id no deterministic violation has
llm_only_of(det_violations, llm_violations) ==
    SelectSeq(llm_violations,
              LAMBDA v : Get(v, "violation_id", None) \notin Range(det_violations))

\* a status that checks the violation count before the review flag
final_status_fail_first(needs_review, total_violations) ==
    IF total_violations > 0 THEN "FAIL"
    ELSE IF needs_review THEN "NEEDS REVIEW"
    ELSE "PASS"

\* lines 32-37
final_status_of(needs_review, total_violations) ==
    IF needs_review THEN "NEEDS REVIEW"
    ELSE IF total_violations > 0 THEN "FAIL"
    ELSE "PASS"

merge(det, llm) ==
    LET det_list == Get(det, "violations", <<>>)
        det_violations == [k \in DOMAIN det_list |-> Get(det_list[k], "violation_id", None)]
        llm_violations == Get(llm, "additional_violations", <<>>)
        llm_only == llm_only_of(det_violations, llm_violations)
        total_violations == Len(det_list) + Len(llm_only)
        needs_review == IF Len(llm_only) > 0 THEN TRUE
                        ELSE Get(llm, "needs_engineer_review", FALSE)
    IN  Ok([panel_id |-> Get(det, "panel_id", "UNKNOWN"),
            deterministic_result |-> det,
            llm_result |-> llm,
            llm_caught_additionally |-> llm_only,
            total_violations |-> total_violations,
            needs_review |-> needs_review,
            final_status |-> final_status_of(needs_review, total_violations),
            design_concerns |-> Get(llm, "design_concerns", <<>>),
            summary |-> Get(llm, "summary", "Analysis complete")])

(***************************************************************************)
(* RemediationApplier (remediation_applier.py)                             *)
(*                                                                         *)
(* Lengths of the remediation model are millimetres. The spacing fix       *)
(* divides the panel width by the number of stud gaps in float arithmetic: *)
(* where the gap count divides the width the quotient is a whole number,   *)
(* elsewhere it is the rounded binary64 value.                             *)
(***************************************************************************)
UpperCase == "ABCDEFGHIJKLMNOPQRSTUVWXYZ"

LowerCase == "abcdefghijklmnopqrstuvwxyz"

\* the lower-case letter of each upper-case letter
ToLower ==
    [c \in {SubSeq(UpperCase, i, i) : i \in 1..Len(UpperCase)} |->
        LET i == CHOOSE j \in 1..Len(UpperCase) : SubSeq(UpperCase, j, j) = c
        IN  SubSeq(LowerCase, i, i)]

lower_char(c) == IF c \in DOMAIN ToLower THEN ToLower[c] ELSE c

\* str.lower()
RECURSIVE lower(_)
lower(s) ==
    IF Len(s) = 0 THEN "" ELSE lower_char(SubSeq(s, 1, 1)) \o lower(SubSeq(s, 2, Len(s)))

\* k in s, for strings
contains(k, s) == \E i \in 1..(Len(s) - Len(k) + 1) : SubSeq(s, i, i + Len(k) - 1) = k

\* no copy at all: the returned panel is the input object
copy_by_reference(obj) == [value |-> obj, shared |-> {"self"}]

\* a copy that shares the element lists with its source (copy.copy)
shallow_copy(obj) == [value |-> obj, shared |-> {"studs", "openings", "ducts"}]

\* line 28, copy.deepcopy: a new object that shares nothing with its source.
\* shared names what a copy shares with its source: "self" (the same object) or
\* the attributes whose lists are the source's own lists.
deepcopy(obj) == [value |-> obj, shared |-> {}]

\* the source object after the writes made through a copy of it
written_through(source, copy, shared) ==
    IF "self" \in shared THEN copy
    ELSE [source EXCEPT !.studs = IF "studs" \in shared THEN copy.studs ELSE source.studs,
                        !.openings = IF "openings" \in shared THEN copy.openings
                                     ELSE source.openings,
                        !.ducts = IF "ducts" \in shared THEN copy.ducts ELSE source.ducts]

\* violation['reason'].lower(): a record without reason raises
reason_of_strict(violation) ==
    IF HasKey(violation, "reason") THEN Ok(lower(violation["reason"])) ELSE Raise("KeyError")

\* line 35 (and lines 95-96)
reason_of(violation) == Ok(lower(Get(violation, "reason", "")))

\* line 36
rule_id_of(violation) == Ok(Get(violation, "rule_id", ""))

\* a window test that looks at the rule id only
is_window_support_by_rule(reason, rule_id) == contains("window_support", lower(rule_id))

\* line 39
is_window_support(reason, rule_id) ==
    \/ contains("jack stud", reason)
    \/ contains("header", reason)
    \/ contains("window_support", lower(rule_id))

\* line 42
is_stud_spacing(reason, rule_id) ==
    contains("spacing", reason) \/ contains("stud_spacing", lower(rule_id))

\* line 45 and lines 95-96
is_bracing(reason) == contains("bracing", reason) \/ contains("seismic", reason)

\* a window fix that stops after the first window
fix_first_window_only(p, reason) ==
    LET windows == {i \in DOMAIN p.openings : p.openings[i].opening_type = "window"}
    IN  [p EXCEPT !.openings =
            [i \in DOMAIN p.openings |->
                IF i \in windows /\ \A j \in windows : i <= j
                THEN [p.openings[i] EXCEPT !.has_jack_studs = TRUE, !.has_header = TRUE]
                ELSE p.openings[i]]]

\* a window fix that flips the flags instead of setting them
fix_window_support_toggle(p, reason) ==
    [p EXCEPT !.openings =
        [i \in DOMAIN p.openings |->
            IF p.openings[i].opening_type = "window"
            THEN [p.openings[i] EXCEPT !.has_jack_studs = ~p.openings[i].has_jack_studs,
                                       !.has_header = ~p.openings[i].has_header]
            ELSE p.openings[i]]]

\* a window fix that also frames the doors
fix_every_opening(p, reason) ==
    [p EXCEPT !.openings =
        [i \in DOMAIN p.openings |->
            [p.openings[i] EXCEPT !.has_jack_studs = TRUE, !.has_header = TRUE]]]

\* lines 51-58
_fix_window_support(p, reason) ==
    [p EXCEPT !.openings =
        [i \in DOMAIN p.openings |->
            IF p.openings[i].opening_type = "window"
            THEN [p.openings[i] EXCEPT !.has_jack_studs = TRUE, !.has_header = TRUE]
            ELSE p.openings[i]]]

(***************************************************************************)
(* Python numbers.  A number whose value is an integer below 2^31 is held  *)
(* as that integer; any other float is held as its binary64 value          *)
(* (hi * 2^27 + lo) * 2^exp with a 53 bit significand, 2^25 <= hi < 2^26   *)
(* and lo < 2^27.  Only the non-negative numbers of a panel are covered,   *)
(* and divisors and factors up to 8.                                       *)
(***************************************************************************)
binary64(hi, lo, exp) == [hi |-> hi, lo |-> lo, exp |-> exp]

\* whether a number is held as an integer
IsInt(x) == SubSeq(ToString(x), 1, 1) # "["

\* the next binary64 value above f
next_up(f) ==
    IF f.lo + 1 < 2^27 THEN [f EXCEPT !.lo = f.lo + 1]
    ELSE IF f.hi + 1 < 2^26 THEN [f EXCEPT !.hi = f.hi + 1, !.lo = 0]
    ELSE binary64(2^25, 0, f.exp + 1)

\* round to nearest, ties to even, of f + rem / den
round_half_even(f, rem, den) ==
    IF 2 * rem > den \/ (2 * rem = den /\ f.lo % 2 = 1) THEN next_up(f) ELSE f

\* float(n) for an integer 0 < n < 2^31
float_of_int(n) ==
    LET k == CHOOSE b \in 1..31 : n \div 2^(b - 1) = 1
    IN  IF k <= 26 THEN binary64(n * 2^(26 - k), 0, k - 53)
        ELSE binary64(n \div 2^(k - 26), (n % 2^(k - 26)) * 2^(53 - k), k - 53)

\* an integral value below 2^31 is held as an integer
canonical(f) ==
    LET s == 0 - f.exp
    IN  IF s < 22 \/ s > 52 THEN f
        ELSE IF s <= 27
             THEN IF f.lo % 2^s = 0 THEN f.hi * 2^(27 - s) + f.lo \div 2^s ELSE f
             ELSE IF f.lo = 0 /\ f.hi % 2^(s - 27) = 0 THEN f.hi \div 2^(s - 27) ELSE f

\* f / d in binary64, correctly rounded
binary64_div(f, d) ==
    LET quotient(s) ==
            LET h == f.hi * 2^s + (f.lo * 2^s) \div 2^27
                l == (f.lo * 2^s) % 2^27
                r == h % d
            IN  [hi |-> h \div d, lo |-> (r * 2^27 + l) \div d, rem |-> (r * 2^27 + l) % d]
        s == CHOOSE t \in 0..3 : quotient(t).hi >= 2^25 /\ quotient(t).hi < 2^26
        q == quotient(s)
    IN  round_half_even(binary64(q.hi, q.lo, f.exp - s), q.rem, d)

\* i * f in binary64, correctly rounded
binary64_mul(i, f) ==
    LET h == f.hi * i + (f.lo * i) \div 2^27
        l == (f.lo * i) % 2^27
        t == CHOOSE u \in 0..3 : h \div 2^u >= 2^25 /\ h \div 2^u < 2^26
    IN  round_half_even(binary64(h \div 2^t, l \div 2^t + (h % 2^t) * 2^(27 - t), f.exp + t),
                        l % 2^t, 2^t)

\* line 78, a / d: the quotient of a number by a positive integer
truediv(a, d) ==
    IF IsInt(a)
    THEN IF a % d = 0 THEN a \div d ELSE canonical(binary64_div(float_of_int(a), d))
    ELSE canonical(binary64_div(a, d))

\* line 81, i * s: the product of a list index and a number
mul(i, s) ==
    IF i = 0 THEN 0
    ELSE IF IsInt(s)
         THEN IF s <= 2147483647 \div i THEN i * s
              ELSE canonical(binary64_mul(i, float_of_int(s)))
    ELSE canonical(binary64_mul(i, s))

\* a <= b on non-negative numbers
le(a, b) ==
    IF IsInt(a) /\ IsInt(b) THEN a <= b
    ELSE IF IsInt(a) /\ a <= 0 THEN TRUE
    ELSE IF IsInt(b) /\ b <= 0 THEN FALSE
    ELSE LET x == IF IsInt(a) THEN float_of_int(a) ELSE a
             y == IF IsInt(b) THEN float_of_int(b) ELSE b
         IN  \/ x.exp < y.exp
             \/ x.exp = y.exp /\ x.hi < y.hi
             \/ x.exp = y.exp /\ x.hi = y.hi /\ x.lo <= y.lo

\* a == b
eq(a, b) == le(a, b) /\ le(b, a)

\* a spacing fix that places the studs at the standard spacing of line 63
fix_stud_spacing_standard(p, reason) ==
    IF Len(p.studs) < 2 THEN p
    ELSE [p EXCEPT !.studs =
             [i \in DOMAIN p.studs |-> [p.studs[i] EXCEPT !.position_mm = (i - 1) * 406]]]

\* a spacing fix that moves every stud by a fixed step from where it stands
fix_stud_spacing_nudge(p, reason) ==
    [p EXCEPT !.studs =
        [i \in DOMAIN p.studs |->
            [p.studs[i] EXCEPT !.position_mm = p.studs[i].position_mm + 100]]]

\* lines 60-81
_fix_stud_spacing(p, reason) ==
    IF Len(p.studs) < 2 THEN p
    ELSE LET panel_width == p.width_mm
             num_studs == Len(p.studs)
         IN  IF num_studs = 2
             THEN [p EXCEPT !.studs[1].position_mm = 0, !.studs[2].position_mm = panel_width]
             ELSE LET spacing == truediv(panel_width, num_studs - 1)
                  IN  [p EXCEPT !.studs =
                          [i \in DOMAIN p.studs |->
                              [p.studs[i] EXCEPT !.position_mm = mul(i - 1, spacing)]]]

\* lines 45-47: bracing changes nothing in the panel
bracing_pass(p) == p

\* a loop that stops after the first violation that triggers a fix
RECURSIVE fix_loop_first_trigger(_, _, _)
fix_loop_first_trigger(fixed_panel, violations, k) ==
    IF k > Len(violations) THEN Ok(fixed_panel)
    ELSE LET reason == reason_of(violations[k])
             rule_id == rule_id_of(violations[k])
         IN  IF reason.raised THEN reason
             ELSE IF rule_id.raised THEN rule_id
             ELSE IF is_window_support(reason.value, rule_id.value)
                  THEN Ok(_fix_window_support(fixed_panel, reason.value))
             ELSE IF is_stud_spacing(reason.value, rule_id.value)
                  THEN Ok(_fix_stud_spacing(fixed_panel, reason.value))
             ELSE fix_loop_first_trigger(fixed_panel, violations, k + 1)

\* lines 34-47
RECURSIVE fix_loop(_, _, _)
fix_loop(fixed_panel, violations, k) ==
    IF k > Len(violations) THEN Ok(fixed_panel)
    ELSE LET reason == reason_of(violations[k])
             rule_id == rule_id_of(violations[k])
         IN  IF reason.raised THEN reason
             ELSE IF rule_id.raised THEN rule_id
             ELSE LET after_window ==
                          IF is_window_support(reason.value, rule_id.value)
                          THEN _fix_window_support(fixed_panel, reason.value)
                          ELSE fixed_panel
                      after_spacing ==
                          IF is_stud_spacing(reason.value, rule_id.value)
                          THEN _fix_stud_spacing(after_window, reason.value)
                          ELSE after_window
                      after_bracing ==
                          IF is_bracing(reason.value) THEN bracing_pass(after_spacing)
                          ELSE after_spacing
                  IN  fix_loop(after_bracing, violations, k + 1)

\* lines 29-49, on the copy made at line 28. The value of the outcome holds the
\* returned panel (fixed_panel), the input object as the call leaves it
\* (panel_data) and whether the returned panel is the input object itself
\* (is_input).
fix_copy(panel_data, copy, remediation_data) ==
    LET renamed == [copy.value EXCEPT !.panel_id = panel_data.panel_id \o "_FIXED",
                                      !.name = panel_data.name \o " (After Remediation)"]
        done == fix_loop(renamed,
                         Get(remediation_data, "violations_with_remediation", <<>>), 1)
    IN  IF done.raised THEN done
        ELSE Ok([fixed_panel |-> done.value,
                 panel_data |-> written_through(panel_data, done.value, copy.shared),
                 is_input |-> "self" \in copy.shared])

\* lines 16-49: the copy of line 28, then the writes of lines 29-49
apply_fixes(panel_data, remediation_data) ==
    fix_copy(panel_data, deepcopy(panel_data), remediation_data)

\* lines 94-98: any(...) stops at the first violation that names bracing
RECURSIVE any_bracing(_, _)
any_bracing(violations, k) ==
    IF k > Len(violations) THEN Ok(FALSE)
    ELSE LET reason == reason_of(violations[k])
         IN  IF reason.raised THEN reason
             ELSE IF is_bracing(reason.value) THEN Ok(TRUE)
             ELSE any_bracing(violations, k + 1)

\* a seismic test that starts one zone too late
is_high_seismic_strict(panel_data) == panel_data.seismic_zone > 3

\* line 101
is_high_seismic(panel_data) == panel_data.seismic_zone >= 3

\* lines 103 and 110
corner_or_edge(opening) == opening.is_corner \/ opening.position_mm < 500

\* lines 111-116
diagonal_brace(opening) ==
    [type |-> "diagonal_brace", opening_id |-> opening.opening_id,
     position_mm |-> opening.position_mm, width_mm |-> opening.width_mm]

\* lines 83-118
get_bracing_elements(panel_data, remediation_data) ==
    LET violations == Get(remediation_data, "violations_with_remediation", <<>>)
        has_bracing_violation == any_bracing(violations, 1)
        has_corner_window == \E i \in DOMAIN panel_data.openings :
                                 corner_or_edge(panel_data.openings[i])
        braced == SelectSeq(panel_data.openings, corner_or_edge)
    IN  IF has_bracing_violation.raised THEN has_bracing_violation
        ELSE IF has_bracing_violation.value
                \/ (is_high_seismic(panel_data) /\ has_corner_window)
             THEN Ok([k \in DOMAIN braced |-> diagonal_brace(braced[k])])
             ELSE Ok(<<>>)

\* main.py lines 70-77: the remediation record saved for a panel
remediation_data_of(panel_dict, answer) ==
    [panel_id |-> panel_dict.panel_id,
     violations_with_remediation |-> Get(answer, "additional_violations", <<>>),
     design_concerns |-> Get(answer, "design_concerns", <<>>),
     needs_engineer_review |-> Get(answer, "needs_engineer_review", FALSE),
     summary |-> Get(answer, "summary", "Analysis complete")]

(***************************************************************************)
(* Rule tables.                                                            *)
(***************************************************************************)
StudFamily ==
    [rules |-> <<[id |-> "STUD_SPACING_001", severity |-> "high"]>>,
     standard_spacing_mm |-> 4, tolerance_mm |-> 1]

OpeningFamily ==
    [rules |-> <<[id |-> "WINDOW_SUPPORT_001", severity |-> "critical",
                  width_threshold_mm |-> 3]>>]

DuctFamily ==
    [rules |-> <<[id |-> "MEP_CLEARANCE_001", severity |-> "high"]>>,
     duct_to_stud_mm |-> 2]

FullRules ==
    [stud_spacing |-> StudFamily, openings |-> OpeningFamily, mep_clearance |-> DuctFamily]

\* the same table with no severity configured on any rule
DefaultSeverityRules ==
    [stud_spacing |-> [StudFamily EXCEPT !.rules = <<Without(StudFamily.rules[1], "severity")>>],
     openings |-> [OpeningFamily EXCEPT !.rules = <<Without(OpeningFamily.rules[1], "severity")>>],
     mep_clearance |-> [DuctFamily EXCEPT !.rules = <<Without(DuctFamily.rules[1], "severity")>>]]

\* a complete table with other thresholds and severities
TightRules ==
    [stud_spacing |-> [rules |-> <<[id |-> "STUD_SPACING_002", severity |-> "medium"]>>,
                       standard_spacing_mm |-> 5, tolerance_mm |-> 0],
     openings |-> [rules |-> <<[id |-> "WINDOW_SUPPORT_002", severity |-> "high",
                                width_threshold_mm |-> 4]>>],
     mep_clearance |-> [rules |-> <<[id |-> "MEP_CLEARANCE_002", severity |-> "low"]>>,
                        duct_to_stud_mm |-> 3]]

\* a complete table with a wide spacing tolerance
LooseRules ==
    [stud_spacing |-> [rules |-> <<[id |-> "STUD_SPACING_003", severity |-> "low"]>>,
                       standard_spacing_mm |-> 1, tolerance_mm |-> 2],
     openings |-> [rules |-> <<[id |-> "WINDOW_SUPPORT_003", severity |-> "medium",
                                width_threshold_mm |-> 3]>>],
     mep_clearance |-> [rules |-> <<[id |-> "MEP_CLEARANCE_003", severity |-> "critical"]>>,
                        duct_to_stud_mm |-> 2]]

CompleteRuleTables == {FullRules, DefaultSeverityRules, TightRules, LooseRules}

\* one or more families absent from the table (the empty table included)
MissingFamilyTables ==
    {[f \in present |-> FullRules[f]] : present \in (SUBSET DOMAIN FullRules) \ {DOMAIN FullRules}}

\* one family present without its "rules" list
MissingRulesKeyTables ==
    {[FullRules EXCEPT ![f] = Without(FullRules[f], "rules")] : f \in DOMAIN FullRules}

\* one family present with an empty "rules" list
EmptyRulesListTables ==
    {[FullRules EXCEPT ![f] = [FullRules[f] EXCEPT !.rules = <<>>]] : f \in DOMAIN FullRules}

\* one family present with one of its thresholds absent
MissingThresholdTables ==
    {[FullRules EXCEPT !.stud_spacing = Without(StudFamily, "standard_spacing_mm")],
     [FullRules EXCEPT !.stud_spacing = Without(StudFamily, "tolerance_mm")],
     [FullRules EXCEPT !.openings =
         [rules |-> <<Without(OpeningFamily.rules[1], "width_threshold_mm")>>]],
     [FullRules EXCEPT !.mep_clearance = Without(DuctFamily, "duct_to_stud_mm")]}

GapRuleTables ==
    MissingFamilyTables \cup MissingRulesKeyTables \cup EmptyRulesListTables
        \cup MissingThresholdTables

RuleTables == CompleteRuleTables \cup GapRuleTables

(***************************************************************************)
(* Input panels of the specifications.                                     *)
(***************************************************************************)
StudPositions == {0, 2, 5, 6, 10}

StudsOf(positions) == [i \in 1..Len(positions) |-> Stud("S" \o ToString(i), positions[i])]

StudPanels ==
    {PanelData("P1", 10, StudsOf(ps), <<>>, <<>>, 1) : ps \in SeqsUpTo(StudPositions, MaxStuds)}

\* an opening without its id: [type, width, jack, header]
OpeningShapes == [type : {"window", "door"}, width : {2, 3, 4}, jack : BOOLEAN, header : BOOLEAN]

OpeningsOf(shapes) ==
    [i \in 1..Len(shapes) |->
        Opening("W" \o ToString(i), shapes[i].type, 4, shapes[i].width,
                shapes[i].jack, shapes[i].header, FALSE)]

OpeningPanels ==
    {PanelData("P1", 10, <<>>, OpeningsOf(os), <<>>, 1) : os \in SeqsUpTo(OpeningShapes, MaxOpenings)}

\* a duct without its id: [pos, diameter, clearance]
DuctGeometries == [pos : {1, 4}, diameter : {2, 4}]

DuctShapes == [pos : {1, 4}, diameter : {2, 4}, clearance : {1, 2, 3}]

DuctsOf(shapes) ==
    [i \in 1..Len(shapes) |->
        Duct("D" \o ToString(i), shapes[i].pos, shapes[i].diameter, shapes[i].clearance)]

DuctPanelStuds == {<<>>, <<0>>, <<0, 4>>}

DuctPanels ==
    {PanelData("P1", 10, StudsOf(ps), <<>>, DuctsOf(ds), 1) :
        ps \in DuctPanelStuds, ds \in SeqsUpTo(DuctShapes, MaxDucts)}

\* panels with elements of all three families
MixedPanels ==
    {PanelData("P1", 10, StudsOf(ps), OpeningsOf(os), DuctsOf(ds), 1) :
        ps \in SeqsUpTo({0, 4}, MaxMixed + 1),
        os \in SeqsUpTo({[type |-> "window", width |-> 2, jack |-> j, header |-> TRUE] :
                            j \in BOOLEAN}, MaxMixed),
        ds \in SeqsUpTo({[pos |-> 1, diameter |-> 2, clearance |-> c] : c \in {1, 2}},
                        MaxMixed)}

\* panels of the pipeline: two studs, at most one opening and one duct
PipelinePanels ==
    {p \in MixedPanels : Len(p.studs) = 2 /\ Len(p.openings) <= 1 /\ Len(p.ducts) <= 1}

\* violation records of the analysis collaborator; the last one carries no id
ExternalViolations ==
    {[violation_id |-> "STUD_0_1", rule_id |-> "stud_spacing_001", severity |-> "high",
      reason |-> "Stud spacing out of tolerance"],
     [violation_id |-> "WINDOW_W1", rule_id |-> "window_support_001", severity |-> "critical",
      reason |-> "Window missing jack studs"],
     [violation_id |-> "LLM_001", rule_id |-> "seismic_001", severity |-> "high",
      reason |-> "Corner window needs seismic bracing"],
     [rule_id |-> "design_001", reason |-> "Duct too close to the panel edge"]}

LLMResults ==
    {<<>>}
    \cup {[additional_violations |-> ext] : ext \in SeqsUpTo(ExternalViolations, MaxExternal)}
    \cup {[additional_violations |-> ext, needs_engineer_review |-> flag] :
             ext \in SeqsUpTo(ExternalViolations, MaxExternal), flag \in BOOLEAN}

(***************************************************************************)
(* Inputs of the remediation specification (lengths in millimetres).       *)
(***************************************************************************)
\* the sub-lists of a catalogue with at most n elements, in catalogue order
SubLists(catalogue, n) ==
    LET pick(S) == [k \in 1..Cardinality(S) |->
                       catalogue[CHOOSE i \in S : Cardinality({j \in S : j <= i}) = k]]
    IN  {pick(S) : S \in {T \in SUBSET DOMAIN catalogue : Cardinality(T) <= n}}

MetricRules ==
    [stud_spacing |-> [rules |-> <<[id |-> "STUD_SPACING_001", severity |-> "high"]>>,
                       standard_spacing_mm |-> 1220, tolerance_mm |-> 5],
     openings |-> [rules |-> <<[id |-> "WINDOW_SUPPORT_001", severity |-> "critical",
                                width_threshold_mm |-> 900]>>],
     mep_clearance |-> [rules |-> <<[id |-> "MEP_CLEARANCE_001", severity |-> "high"]>>,
                        duct_to_stud_mm |-> 25]]

\* stud positions of n studs: bunched at the left, listed from the right, evenly spread
StudLayouts ==
    UNION {{[i \in 1..n |-> (i - 1) * 100],
            [i \in 1..n |-> 3660 - (i - 1) * 100],
            [i \in 1..n |-> IF n < 2 THEN 0 ELSE (i - 1) * (3660 \div (n - 1))]} :
           n \in 0..MaxFixStuds}

\* W1 at the left edge, W2 wide and in the middle, W3 with its right side 60 mm
\* from the right edge, W4 marked corner, DR1 a door
OpeningCatalogue ==
    <<Opening("W1", "window", 300, 600, FALSE, FALSE, FALSE),
      Opening("W2", "window", 1500, 1200, TRUE, FALSE, FALSE),
      Opening("W3", "window", 3000, 600, TRUE, TRUE, FALSE),
      Opening("W4", "window", 1500, 600, FALSE, TRUE, TRUE),
      Opening("DR1", "door", 1800, 900, FALSE, FALSE, FALSE)>>

RemediationPanels ==
    {PanelData("P1", 3660, StudsOf(layout), SubSeq(OpeningCatalogue, 1, 2),
               <<Duct("DU1", 1000, 100, 20)>>, 1) : layout \in StudLayouts}
    \cup {PanelData("P1", 3660, StudsOf(<<0, 100, 200>>), os, <<Duct("DU1", 1000, 100, 20)>>, z) :
             os \in SubLists(OpeningCatalogue, MaxFixOpenings), z \in {2, 3}}

\* panel widths given in feet: float("3657.6") (12 ft) and float("2438.4") (8 ft)
ImperialWidths ==
    {binary64(59926118, 53687091, 0 - 41), binary64(39950745, 80530637, 0 - 41)}

\* panels of those widths whose studs are bunched at the left
ImperialPanels ==
    {PanelData("P2", w, StudsOf([i \in 1..n |-> (i - 1) * 100]), SubSeq(OpeningCatalogue, 1, 2),
               <<Duct("DU1", 1000, 100, 20)>>, 1) : w \in ImperialWidths, n \in 0..MaxFixStuds}

\* a rule table with the ids of another code book, a wider standard spacing, a
\* higher width threshold and a lower minimum clearance
CodeBookRules ==
    [stud_spacing |-> [rules |-> <<[id |-> "IRC_R602_3", severity |-> "medium"]>>,
                       standard_spacing_mm |-> 1830, tolerance_mm |-> 10],
     openings |-> [rules |-> <<[id |-> "IRC_R602_7", severity |-> "high",
                                width_threshold_mm |-> 1500]>>],
     mep_clearance |-> [rules |-> <<[id |-> "IRC_M1601", severity |-> "low"]>>,
                        duct_to_stud_mm |-> 20]]

RecheckRuleTables == {MetricRules, CodeBookRules}

\* violation records handed to the applier: records worded as the rule engine
\* words them, records of the analysis collaborator with the same category and
\* rule in other words, and partial records
RemediationViolations ==
    <<[violation_id |-> "WINDOW_W1", rule_id |-> "WINDOW_SUPPORT_001",
       violation_type |-> "support", severity |-> "critical",
       reason |-> "Window missing jack studs or header"],
      [violation_id |-> "LLM_001", rule_id |-> "IRC_R602_7",
       violation_type |-> "support", severity |-> "high",
       reason |-> "Window W2 needs a HEADER"],
      [violation_id |-> "LLM_001", rule_id |-> "IRC_R602_7",
       violation_type |-> "support", severity |-> "high",
       reason |-> "Window opening lacks framing support"],
      [violation_id |-> "STUD_0_1", rule_id |-> "STUD_SPACING_001",
       violation_type |-> "spacing", severity |-> "high",
       reason |-> "Spacing 100mm exceeds tolerance of +-5mm (expected 1220mm)"],
      [violation_id |-> "LLM_002", rule_id |-> "IRC_R602_3",
       violation_type |-> "spacing", severity |-> "medium",
       reason |-> "Studs are too far apart"],
      [violation_id |-> "LLM_003", rule_id |-> "SEISMIC_001",
       violation_type |-> "bracing", severity |-> "high",
       reason |-> "Corner window needs seismic bracing"],
      [violation_id |-> "LLM_003", rule_id |-> "SEISMIC_001",
       violation_type |-> "bracing", severity |-> "high",
       reason |-> "Brace the window header against lateral load"],
      [violation_id |-> "LLM_004", rule_id |-> "SEISMIC_002",
       violation_type |-> "bracing", severity |-> "high",
       reason |-> "Seismic bracing must tie into the window header"],
      [reason |-> "Stud spacing is irregular"],
      [violation_id |-> "LLM_005"],
      [rule_id |-> "window_support_check", severity |-> "low"]>>

ViolationLists == SubLists(RemediationViolations, MaxViolations)

RemediationAnswers ==
    {<<>>} \cup {[additional_violations |-> list] : list \in ViolationLists}

(***************************************************************************)
(* Actions.                                                                *)
(***************************************************************************)
CheckStudSpacing ==
    /\ ret' = Called("check_stud_spacing", check_stud_spacing(panel, rules))
    /\ UNCHANGED <<panel, rules, det_result, prev_result, llm_result, merged,
                   saved_remediation, fixed, bracing, refixed,
                   rechecked, batch, worker>>

CheckWindowSupport ==
    /\ ret' = Called("check_window_support", check_window_support(panel, rules))
    /\ UNCHANGED <<panel, rules, det_result, prev_result, llm_result, merged,
                   saved_remediation, fixed, bracing, refixed,
                   rechecked, batch, worker>>

CheckDuctClearance ==
    /\ ret' = Called("check_duct_clearance", check_duct_clearance(panel, rules))
    /\ UNCHANGED <<panel, rules, det_result, prev_result, llm_result, merged,
                   saved_remediation, fixed, bracing, refixed,
                   rechecked, batch, worker>>

\* main.py line 57; a second evaluation of the same input keeps the first outcome
RunDeterministicChecks ==
    /\ prev_result = NotCalled
    /\ llm_result = NotCalled
    /\ det_result' = Called("run_deterministic_checks", run_deterministic_checks(panel, rules))
    /\ prev_result' = det_result
    /\ UNCHANGED <<panel, rules, ret, llm_result, merged,
                   saved_remediation, fixed, bracing, refixed,
                   rechecked, batch, worker>>

\* main.py lines 60-61: the collaborator's answer is any result dict
Analyze ==
    /\ det_result.op = "run_deterministic_checks" /\ ~det_result.raised
    /\ llm_result = NotCalled
    /\ \E answer \in LLMResults : llm_result' = Called("analyze", Ok(answer))
    /\ UNCHANGED <<panel, rules, ret, det_result, prev_result, merged,
                   saved_remediation, fixed, bracing, refixed,
                   rechecked, batch, worker>>

Merge ==
    /\ llm_result.op = "analyze"
    /\ merged = NotCalled
    /\ merged' = Called("merge", merge(to_dict(det_result.value), llm_result.value))
    /\ UNCHANGED <<panel, rules, ret, det_result, prev_result, llm_result,
                   saved_remediation, fixed, bracing, refixed,
                   rechecked, batch, worker>>

\* main.py lines 57-77: after the one run of the checks, the collaborator's
\* answer and the remediation record built from it
AnalyzeForRemediation ==
    /\ det_result.op = "run_deterministic_checks" /\ ~det_result.raised
    /\ prev_result = NotCalled
    /\ llm_result = NotCalled
    /\ \E answer \in RemediationAnswers :
          /\ llm_result' = Called("analyze", Ok(answer))
          /\ saved_remediation' = remediation_data_of(panel, answer)
    /\ UNCHANGED <<panel, rules, ret, det_result, prev_result, merged, fixed, bracing, refixed,
                   rechecked, batch, worker>>

\* remediation_applier.py line 140. panel is the input object: it takes the
\* state the call leaves it in.
ApplyFixes ==
    /\ merged.op = "merge"
    /\ fixed = NotCalled
    /\ LET outcome == apply_fixes(panel, saved_remediation)
       IN  /\ fixed' = Called("apply_fixes", outcome)
           /\ panel' = IF outcome.raised THEN panel ELSE outcome.value.panel_data
    /\ UNCHANGED <<rules, ret, det_result, prev_result, llm_result, merged,
                   saved_remediation, bracing, refixed,
                   rechecked, batch, worker>>

\* remediation_applier.py line 142: the annotations are computed for the fixed panel
GetBracingElements ==
    /\ fixed.op = "apply_fixes" /\ ~fixed.raised
    /\ bracing = NotCalled
    /\ bracing' = Called("get_bracing_elements",
                         get_bracing_elements(fixed.value.fixed_panel, saved_remediation))
    /\ UNCHANGED <<panel, rules, ret, det_result, prev_result, llm_result, merged,
                   saved_remediation, fixed, refixed,
                   rechecked, batch, worker>>

\* a second remediation run whose input is the panel the first run returned
ReapplyFixes ==
    /\ bracing.op = "get_bracing_elements" /\ ~bracing.raised
    /\ refixed = NotCalled
    /\ LET outcome == apply_fixes(fixed.value.fixed_panel, saved_remediation)
       IN  /\ refixed' = Called("apply_fixes", outcome)
           /\ fixed' = IF outcome.raised THEN fixed
                       ELSE [fixed EXCEPT !.value.fixed_panel = outcome.value.panel_data]
    /\ UNCHANGED <<panel, rules, ret, det_result, prev_result, llm_result, merged,
                   saved_remediation, bracing,
                   rechecked, batch, worker>>

\* the violation lists a caller makes of a check result: all of it, or a few
\* of its records
ReportedLists(result) ==
    {to_dict(result).violations} \cup SubLists(to_dict(result).violations, MaxViolations)

\* remediation_applier.py lines 140-141 with a remediation record made of the
\* violations the rule engine reported for the panel
ApplyFixesToReported ==
    /\ det_result.op = "run_deterministic_checks" /\ ~det_result.raised
    /\ prev_result = NotCalled
    /\ fixed = NotCalled
    /\ \E list \in ReportedLists(det_result.value) :
          LET data == [panel_id |-> panel.panel_id, violations_with_remediation |-> list]
              outcome == apply_fixes(panel, data)
          IN  /\ saved_remediation' = data
              /\ fixed' = Called("apply_fixes", outcome)
              /\ panel' = IF outcome.raised THEN panel ELSE outcome.value.panel_data
    /\ UNCHANGED <<rules, ret, det_result, prev_result, llm_result, merged, bracing, refixed,
                   rechecked, batch, worker>>

\* the rule engine run again, with the same rules, on the panel apply_fixes returned
RecheckFixedPanel ==
    /\ fixed.op = "apply_fixes" /\ ~fixed.raised
    /\ rechecked = NotCalled
    /\ rechecked' = Called("run_deterministic_checks",
                           run_deterministic_checks(fixed.value.fixed_panel, rules))
    /\ UNCHANGED <<panel, rules, ret, det_result, prev_result, llm_result, merged,
                   saved_remediation, fixed, bracing, refixed, batch, worker>>

(***************************************************************************)
(* Concurrent workers.  Each worker evaluates one panel of the batch: the  *)
(* three checks, the merge with its analysis result, the copy and the      *)
(* fixes, one step at a time; the panel objects of the batch and the rule  *)
(* table are shared by all workers.                                        *)
(***************************************************************************)
Workers == 1..MaxWorkers

\* the panel objects of the batch
ConcurrentBatch ==
    <<PanelData("P1", 3660, StudsOf(<<0, 100, 200>>), SubSeq(OpeningCatalogue, 1, 2),
                <<Duct("DU1", 1000, 100, 20)>>, 1),
      PanelData("P2", 3660, StudsOf(<<3660, 3560, 3460, 3360>>), SubSeq(OpeningCatalogue, 4, 5),
                <<>>, 3)>>

\* analysis results: one repeats a deterministic id and adds a window record,
\* one asks for review
WorkerAnswers ==
    {[additional_violations |-> <<RemediationViolations[4], RemediationViolations[2]>>],
     [additional_violations |-> <<RemediationViolations[9]>>, needs_engineer_review |-> TRUE]}

\* a worker that has not started: job is the index of its panel in the batch
IdleWorker(job, answer) ==
    [pc |-> "spacing", job |-> job, answer |-> answer,
     spacing |-> NotCalled, support |-> NotCalled, clearance |-> NotCalled,
     det_result |-> NotCalled, merged |-> NotCalled, copy |-> <<>>, fixed |-> NotCalled]

\* deterministic_checker.py line 180
WorkerCheckSpacing(w) ==
    /\ worker[w].pc = "spacing"
    /\ worker' = [worker EXCEPT
                     ![w].spacing = Called("check_stud_spacing",
                                           check_stud_spacing(batch[worker[w].job], rules)),
                     ![w].pc = "support"]
    /\ UNCHANGED <<panel, rules, ret, det_result, prev_result, llm_result, merged,
                   saved_remediation, fixed, bracing, refixed, rechecked, batch>>

\* deterministic_checker.py line 181
WorkerCheckSupport(w) ==
    /\ worker[w].pc = "support"
    /\ worker' = [worker EXCEPT
                     ![w].support = Called("check_window_support",
                                           check_window_support(batch[worker[w].job], rules)),
                     ![w].pc = "clearance"]
    /\ UNCHANGED <<panel, rules, ret, det_result, prev_result, llm_result, merged,
                   saved_remediation, fixed, bracing, refixed, rechecked, batch>>

\* deterministic_checker.py lines 182-192: the last check and the result
WorkerCheckClearance(w) ==
    /\ worker[w].pc = "clearance"
    /\ LET clearance == check_duct_clearance(batch[worker[w].job], rules)
           result == gather_checks(batch[worker[w].job], worker[w].spacing,
                                   worker[w].support, clearance)
       IN  worker' = [worker EXCEPT
                         ![w].clearance = Called("check_duct_clearance", clearance),
                         ![w].det_result = Called("run_deterministic_checks", result),
                         ![w].pc = IF result.raised THEN "done" ELSE "merge"]
    /\ UNCHANGED <<panel, rules, ret, det_result, prev_result, llm_result, merged,
                   saved_remediation, fixed, bracing, refixed, rechecked, batch>>

\* violation_merger.py lines 12-51
WorkerMerge(w) ==
    /\ worker[w].pc = "merge"
    /\ worker' = [worker EXCEPT
                     ![w].merged = Called("merge", merge(to_dict(worker[w].det_result.value),
                                                         worker[w].answer)),
                     ![w].pc = "copy"]
    /\ UNCHANGED <<panel, rules, ret, det_result, prev_result, llm_result, merged,
                   saved_remediation, fixed, bracing, refixed, rechecked, batch>>

\* remediation_applier.py line 28
WorkerCopy(w) ==
    /\ worker[w].pc = "copy"
    /\ worker' = [worker EXCEPT ![w].copy = deepcopy(batch[worker[w].job]),
                                ![w].pc = "fix"]
    /\ UNCHANGED <<panel, rules, ret, det_result, prev_result, llm_result, merged,
                   saved_remediation, fixed, bracing, refixed, rechecked, batch>>

\* remediation_applier.py lines 29-49: the writes reach the batch where the copy
\* shares with its source
WorkerFix(w) ==
    /\ worker[w].pc = "fix"
    /\ LET job == worker[w].job
           outcome == fix_copy(batch[job], worker[w].copy,
                               remediation_data_of(batch[job], worker[w].answer))
       IN  /\ worker' = [worker EXCEPT ![w].fixed = Called("apply_fixes", outcome),
                                       ![w].pc = "done"]
           /\ batch' = IF outcome.raised THEN batch
                       ELSE [batch EXCEPT ![job] = outcome.value.panel_data]
    /\ UNCHANGED <<panel, rules, ret, det_result, prev_result, llm_result, merged,
                   saved_remediation, fixed, bracing, refixed, rechecked>>

InitCalls ==
    /\ ret = NotCalled
    /\ det_result = NotCalled
    /\ prev_result = NotCalled
    /\ llm_result = NotCalled
    /\ merged = NotCalled
    /\ saved_remediation = <<>>
    /\ fixed = NotCalled
    /\ bracing = NotCalled
    /\ refixed = NotCalled
    /\ rechecked = NotCalled
    /\ batch = <<>>
    /\ worker = <<>>

(***************************************************************************)
(* Specifications: one per check function, the engine, the pipeline.       *)
(***************************************************************************)
InitStuds == panel \in StudPanels /\ rules \in CompleteRuleTables /\ InitCalls

NextStuds == CheckStudSpacing

SpecStuds == InitStuds /\ [][NextStuds]_vars

InitOpenings == panel \in OpeningPanels /\ rules \in CompleteRuleTables /\ InitCalls

NextOpenings == CheckWindowSupport

SpecOpenings == InitOpenings /\ [][NextOpenings]_vars

InitDucts == panel \in DuctPanels /\ rules \in CompleteRuleTables /\ InitCalls

NextDucts == CheckDuctClearance

SpecDucts == InitDucts /\ [][NextDucts]_vars

InitEngine == panel \in MixedPanels /\ rules \in RuleTables /\ InitCalls

NextEngine == RunDeterministicChecks

SpecEngine == InitEngine /\ [][NextEngine]_vars

\* the pipeline: rule engine, analysis collaborator, merger
Init == panel \in PipelinePanels /\ rules = FullRules /\ InitCalls

Next == RunDeterministicChecks \/ Analyze \/ Merge

Spec == Init /\ [][Next]_vars

\* a remediation run: rule engine, analysis collaborator, merger, applier
InitRemediation == panel \in RemediationPanels /\ rules = MetricRules /\ InitCalls

NextRemediation ==
    \/ RunDeterministicChecks
    \/ AnalyzeForRemediation
    \/ Merge
    \/ ApplyFixes
    \/ GetBracingElements
    \/ ReapplyFixes

SpecRemediation == InitRemediation /\ [][NextRemediation]_vars

\* the fixes applied to what the rule engine reported, and the checks run again
InitRecheck == panel \in RemediationPanels /\ rules \in RecheckRuleTables /\ InitCalls

NextRecheck == RunDeterministicChecks \/ ApplyFixesToReported \/ RecheckFixedPanel

SpecRecheck == InitRecheck /\ [][NextRecheck]_vars

\* concurrent workers on a batch of panels, in any interleaving of their steps
InitWorkers ==
    /\ batch = ConcurrentBatch
    /\ worker \in [Workers -> {IdleWorker(job, answer) :
                                  job \in DOMAIN ConcurrentBatch, answer \in WorkerAnswers}]
    /\ panel = ConcurrentBatch[1]
    /\ rules = MetricRules
    /\ ret = NotCalled
    /\ det_result = NotCalled
    /\ prev_result = NotCalled
    /\ llm_result = NotCalled
    /\ merged = NotCalled
    /\ saved_remediation = <<>>
    /\ fixed = NotCalled
    /\ bracing = NotCalled
    /\ refixed = NotCalled
    /\ rechecked = NotCalled

NextWorkers ==
    \E w \in Workers :
        \/ WorkerCheckSpacing(w)
        \/ WorkerCheckSupport(w)
        \/ WorkerCheckClearance(w)
        \/ WorkerMerge(w)
        \/ WorkerCopy(w)
        \/ WorkerFix(w)

SpecWorkers == InitWorkers /\ [][NextWorkers]_vars

\* a remediation run of a panel whose width is not a whole number of millimetres
InitImperial == panel \in ImperialPanels /\ rules = MetricRules /\ InitCalls

SpecImperial == InitImperial /\ [][NextRemediation]_vars

(***************************************************************************)
(* Properties of the check functions.                                      *)
(***************************************************************************)
OfType(violations, type) == SelectSeq(violations, LAMBDA v : v.violation_type = type)

StdSpacing == rules["stud_spacing"]["standard_spacing_mm"]

Tolerance == rules["stud_spacing"]["tolerance_mm"]

WidthThreshold == rules["openings"]["rules"][1]["width_threshold_mm"]

MinClearance == rules["mep_clearance"]["duct_to_stud_mm"]

Gap(i) == panel.studs[i + 1].position_mm - panel.studs[i].position_mm

StudPairs == 1..(Len(panel.studs) - 1)

\* C1: check_stud_spacing emits, for every pair of studs adjacent in the list,
\* exactly one violation (expected = standard spacing, actual = next - current)
\* when the deviation is strictly above the tolerance, and none when the
\* deviation equals the tolerance or is smaller.
C1_StrictTolerance ==
    ret.op = "check_stud_spacing" =>
        /\ ~ret.raised
        /\ \A i \in StudPairs :
              LET hits == {k \in DOMAIN ret.value :
                              ret.value[k].violation_id
                                  = "STUD_" \o ToString(i - 1) \o "_" \o ToString(i)}
              IN  IF Abs(Gap(i) - StdSpacing) > Tolerance
                  THEN /\ Cardinality(hits) = 1
                       /\ \A k \in hits : /\ ret.value[k].expected = StdSpacing
                                          /\ ret.value[k].actual = Gap(i)
                  ELSE hits = {}
        /\ Len(ret.value) = Cardinality({i \in StudPairs : Abs(Gap(i) - StdSpacing) > Tolerance})

C1_Witness ==
    /\ ret.op = "check_stud_spacing"
    /\ \E i \in StudPairs : Abs(Gap(i) - StdSpacing) = Tolerance
    /\ \E i \in StudPairs : Abs(Gap(i) - StdSpacing) > Tolerance
    /\ Len(ret.value) = 1

SpacingFindings(violations) == {<<v.element, v.actual>> : v \in Range(violations)}

Permuted(p, f) == [p EXCEPT !.studs = [i \in DOMAIN p.studs |-> p.studs[f[i]]]]

\* C2: the spacing violations (stud pairs and actual spacings) are the same for
\* every permutation of the panel's stud list, and every reported actual spacing
\* is a non-negative gap.
C2_OrderedByPosition ==
    ret.op = "check_stud_spacing" =>
        /\ \A f \in Permutations(DOMAIN panel.studs) :
              SpacingFindings(check_stud_spacing(Permuted(panel, f), rules).value)
                  = SpacingFindings(ret.value)
        /\ \A v \in Range(ret.value) : v.actual >= 0

Qualifies(opening) ==
    /\ opening.opening_type = "window"
    /\ opening.width_mm < WidthThreshold
    /\ ~(opening.has_jack_studs /\ opening.has_header)

\* C3: check_window_support emits exactly one violation for each window narrower
\* than the threshold that lacks jack studs or a header, and nothing for doors,
\* for windows at or above the threshold and for windows with both supports.
C3_OneViolationPerUnsupportedWindow ==
    ret.op = "check_window_support" =>
        /\ ~ret.raised
        /\ \A i \in DOMAIN panel.openings :
              LET hits == {k \in DOMAIN ret.value :
                              ret.value[k].element = panel.openings[i].opening_id}
              IN  Cardinality(hits) = IF Qualifies(panel.openings[i]) THEN 1 ELSE 0
        /\ Len(ret.value) = Cardinality({i \in DOMAIN panel.openings : Qualifies(panel.openings[i])})

C3_Witness ==
    /\ ret.op = "check_window_support"
    /\ Len(ret.value) = 1
    /\ \E i, j \in DOMAIN panel.openings :
          /\ panel.openings[i].opening_type = "window"
          /\ panel.openings[i].width_mm < WidthThreshold
          /\ ~panel.openings[i].has_jack_studs /\ ~panel.openings[i].has_header
          /\ panel.openings[j].opening_type = "door"
          /\ ~panel.openings[j].has_jack_studs

\* the panels that differ from p only in stud geometry and in the position and
\* diameter of ducts
GeometryVariants(p) ==
    {[p EXCEPT !.studs = StudsOf(ps),
               !.ducts = [i \in DOMAIN p.ducts |->
                             [p.ducts[i] EXCEPT !.position_mm = g[i].pos,
                                                !.diameter_mm = g[i].diameter]]] :
        ps \in DuctPanelStuds, g \in [DOMAIN p.ducts -> DuctGeometries]}

\* C4: check_duct_clearance emits exactly one violation per duct whose stored
\* clearance is strictly below the minimum (expected = minimum, actual = stored
\* clearance) and none otherwise; panels that differ only in duct position or
\* stud geometry get the same duct violations.
C4_StoredClearanceDecides ==
    ret.op = "check_duct_clearance" =>
        /\ ~ret.raised
        /\ \A i \in DOMAIN panel.ducts :
              LET hits == {k \in DOMAIN ret.value : ret.value[k].element = panel.ducts[i].duct_id}
              IN  IF panel.ducts[i].clearance_from_stud_mm < MinClearance
                  THEN /\ Cardinality(hits) = 1
                       /\ \A k \in hits :
                             /\ ret.value[k].expected = MinClearance
                             /\ ret.value[k].actual = panel.ducts[i].clearance_from_stud_mm
                  ELSE hits = {}
        /\ Len(ret.value) = Cardinality({i \in DOMAIN panel.ducts :
                                 panel.ducts[i].clearance_from_stud_mm < MinClearance})
        /\ \A q \in GeometryVariants(panel) : check_duct_clearance(q, rules) = Ok(ret.value)

C4_Witness ==
    /\ ret.op = "check_duct_clearance"
    /\ Len(panel.studs) = 2
    /\ Cardinality(GeometryVariants(panel)) > 1
    /\ \E i, j \in DOMAIN panel.ducts :
          /\ panel.ducts[i].clearance_from_stud_mm < MinClearance
          /\ panel.ducts[j].clearance_from_stud_mm = MinClearance
    /\ Len(ret.value) = 1
    /\ ret.value[1].expected = MinClearance
    /\ ret.value[1].actual < MinClearance

(***************************************************************************)
(* Properties of run_deterministic_checks.                                 *)
(***************************************************************************)
Returned == det_result.op = "run_deterministic_checks" /\ ~det_result.raised

FamilyRank(v) ==
    CASE v.violation_type = "spacing" -> 1
      [] v.violation_type = "support" -> 2
      [] v.violation_type = "clearance" -> 3

\* the place in the panel of the element a violation is about
SourceIndex(v) ==
    CASE v.violation_type = "spacing" ->
            CHOOSE i \in StudPairs :
                v.violation_id = "STUD_" \o ToString(i - 1) \o "_" \o ToString(i)
      [] v.violation_type = "support" ->
            CHOOSE i \in DOMAIN panel.openings : panel.openings[i].opening_id = v.element
      [] v.violation_type = "clearance" ->
            CHOOSE i \in DOMAIN panel.ducts : panel.ducts[i].duct_id = v.element

\* C5: in the returned list spacing violations precede opening-support
\* violations, which precede duct-clearance violations; within a family they
\* follow the order of the panel's studs, openings and ducts; and evaluating the
\* same (panel, rules) again returns the identical result.
C5_FixedOrder ==
    Returned =>
        LET vs == det_result.value.violations
        IN  /\ \A i, j \in DOMAIN vs :
                  i < j => \/ FamilyRank(vs[i]) < FamilyRank(vs[j])
                           \/ /\ FamilyRank(vs[i]) = FamilyRank(vs[j])
                              /\ SourceIndex(vs[i]) < SourceIndex(vs[j])
            /\ prev_result # NotCalled => prev_result = det_result

C5_Witness ==
    /\ Returned
    /\ prev_result # NotCalled
    /\ Len(OfType(det_result.value.violations, "spacing")) = 2
    /\ Len(OfType(det_result.value.violations, "support")) = 2
    /\ Len(OfType(det_result.value.violations, "clearance")) = 2

\* C6: the returned CheckResult has pass_fail = true iff its violation list is
\* empty, and every violation in it has passed = false.
C6_PassIffNoViolations ==
    Returned =>
        /\ det_result.value.pass_fail <=> (det_result.value.violations = <<>>)
        /\ \A v \in Range(det_result.value.violations) : v.passed = FALSE

C6_Witness ==
    /\ Returned
    /\ ~det_result.value.pass_fail
    /\ Len(det_result.value.violations) = 1

FamilyType(f) ==
    CASE f = "stud_spacing" -> "spacing"
      [] f = "openings" -> "support"
      [] f = "mep_clearance" -> "clearance"

FamilyCheck(f, p, r) ==
    CASE f = "stud_spacing" -> check_stud_spacing(p, r)
      [] f = "openings" -> check_window_support(p, r)
      [] f = "mep_clearance" -> check_duct_clearance(p, r)

\* C7: when the rule table lacks a family key, the check of that family returns
\* an empty list without raising, and run_deterministic_checks returns a
\* CheckResult holding exactly the violations of the families that are present.
C7_MissingFamilySkipped ==
    (det_result.op = "run_deterministic_checks" /\ rules \in MissingFamilyTables) =>
        /\ ~det_result.raised
        /\ \A f \in DOMAIN FullRules \ DOMAIN rules :
              /\ FamilyCheck(f, panel, rules) = Ok(<<>>)
              /\ OfType(det_result.value.violations, FamilyType(f)) = <<>>
        /\ \A f \in DOMAIN rules :
              OfType(det_result.value.violations, FamilyType(f))
                  = OfType(run_deterministic_checks(panel, FullRules).value.violations,
                           FamilyType(f))

C7_Witness ==
    /\ det_result.op = "run_deterministic_checks"
    /\ DOMAIN rules = {"openings", "mep_clearance"}
    /\ check_stud_spacing(panel, FullRules).value # <<>>
    /\ ~det_result.raised
    /\ Len(OfType(det_result.value.violations, "support")) = 1
    /\ Len(OfType(det_result.value.violations, "clearance")) = 1
    /\ Len(det_result.value.violations) = 2

\* C8: when a family is present but one of its thresholds is absent (or its
\* rules list is empty), the affected check contributes zero violations,
\* run_deterministic_checks does not raise and the other checks still run.
C8_MissingThresholdSkipped ==
    (det_result.op = "run_deterministic_checks"
        /\ rules \in MissingThresholdTables \cup EmptyRulesListTables) =>
        /\ ~det_result.raised
        /\ \A f \in DOMAIN rules :
              OfType(det_result.value.violations, FamilyType(f))
                  = IF rules[f] = FullRules[f]
                    THEN OfType(run_deterministic_checks(panel, FullRules).value.violations,
                                FamilyType(f))
                    ELSE <<>>

(***************************************************************************)
(* Properties of ViolationMerger.merge.                                    *)
(***************************************************************************)
Merged == merged.op = "merge" /\ ~merged.raised

DetViolations == det_result.value.violations

External == Get(llm_result.value, "additional_violations", <<>>)

DetIds == {v.violation_id : v \in Range(DetViolations)}

\* the places of the external list whose id no deterministic violation has
KeptPlaces == {i \in DOMAIN External :
                  ~(HasKey(External[i], "violation_id") /\ External[i].violation_id \in DetIds)}

NthKept(k) == CHOOSE i \in KeptPlaces : Cardinality({j \in KeptPlaces : j <= i}) = k

\* C9: the external-only list is exactly the order-preserving subsequence of the
\* external violations whose id is not the id of a deterministic violation, each
\* record unchanged, and total_violations = len(deterministic) + len(external-only).
C9_ExternalOnlySubsequence ==
    Merged =>
        LET only == merged.value.llm_caught_additionally
        IN  /\ Len(only) = Cardinality(KeptPlaces)
            /\ \A k \in DOMAIN only : only[k] = External[NthKept(k)]
            /\ merged.value.total_violations = Len(DetViolations) + Len(only)

\* two deterministic violations, three external ones, one of them a duplicate
C9_Witness ==
    /\ Merged
    /\ Len(DetViolations) = 2
    /\ Len(External) = 3
    /\ Cardinality(DOMAIN External \ KeptPlaces) = 1
    /\ 1 \notin KeptPlaces
    /\ Len(merged.value.llm_caught_additionally) = 2
    /\ merged.value.total_violations = 4
    /\ merged.value.needs_review = TRUE

\* C10: needs_review is true iff the external-only list is non-empty or the
\* external needs-review flag is set; final_status is needs_review whenever
\* needs_review is true, otherwise fail iff total_violations > 0, otherwise pass.
C10_StatusPrecedence ==
    Merged =>
        LET m == merged.value
        IN  /\ m.needs_review \in BOOLEAN
            /\ m.needs_review <=>
                  \/ Len(m.llm_caught_additionally) > 0
                  \/ /\ HasKey(llm_result.value, "needs_engineer_review")
                     /\ llm_result.value["needs_engineer_review"] = TRUE
            /\ m.final_status \in {"NEEDS REVIEW", "FAIL", "PASS"}
            /\ m.final_status = "NEEDS REVIEW" <=> m.needs_review
            /\ m.final_status = "FAIL" <=> (~m.needs_review /\ m.total_violations > 0)
            /\ m.final_status = "PASS" <=> (~m.needs_review /\ m.total_violations = 0)

\* the flag alone asks for a review of a panel with violations found by the engine
C10_Witness ==
    /\ Merged
    /\ merged.value.llm_caught_additionally = <<>>
    /\ merged.value.total_violations > 0
    /\ merged.value.needs_review = TRUE
    /\ merged.value.final_status = "NEEDS REVIEW"

\* the number of records of a list that carry the given violation id
IdCount(id, list) ==
    Cardinality({k \in DOMAIN list : Get(list[k], "violation_id", None) = id})

ExternalIds == {Get(External[k], "violation_id", None) : k \in DOMAIN External}

DetIdsDistinct == Cardinality(DetIds) = Len(DetViolations)

\* C11 as stated: when the deterministic ids are pairwise distinct, no violation id
\* occurs more than once among the deterministic violations together with the
\* external-only list, and total_violations is the number of distinct violation ids
\* across both inputs.
C11_NoIdTwice ==
    (Merged /\ DetIdsDistinct) =>
        LET all == DetViolations \o merged.value.llm_caught_additionally
        IN  /\ \A id \in DetIds \cup ExternalIds : IdCount(id, all) <= 1
            /\ merged.value.total_violations = Cardinality(DetIds \cup ExternalIds)

\* C11, amended: the merger removes only the external violations whose id is the
\* id of a deterministic violation. When the deterministic ids are pairwise
\* distinct, a deterministic id occurs exactly once among the deterministic
\* violations together with the external-only list, every other id occurs as often
\* as the external list repeats it, and total_violations is the number of
\* deterministic ids plus the number of external records (repeats counted) whose
\* id is not a deterministic id.
C11_DedupAgainstDeterministicOnly ==
    (Merged /\ DetIdsDistinct) =>
        LET all == DetViolations \o merged.value.llm_caught_additionally
        IN  /\ \A id \in DetIds : IdCount(id, all) = 1
            /\ \A id \in ExternalIds \ DetIds : IdCount(id, all) = IdCount(id, External)
            /\ merged.value.total_violations
                  = Cardinality(DetIds)
                    + Cardinality({k \in DOMAIN External :
                                      Get(External[k], "violation_id", None) \notin DetIds})

\* the external list repeats an id of its own and repeats a deterministic id
C11_Witness ==
    /\ Merged
    /\ DetIdsDistinct
    /\ Len(DetViolations) >= 1
    /\ \E i, j \in DOMAIN External :
          /\ i < j
          /\ HasKey(External[i], "violation_id")
          /\ External[i].violation_id \notin DetIds
          /\ Get(External[j], "violation_id", None) = External[i].violation_id
    /\ \E k \in DOMAIN External : Get(External[k], "violation_id", None) \in DetIds
    /\ Len(merged.value.llm_caught_additionally) = 2
    /\ merged.value.total_violations = Len(DetViolations) + 2

(***************************************************************************)
(* Properties of RemediationApplier.                                       *)
(*                                                                         *)
(* The applier takes a violation for a window-support, spacing or bracing  *)
(* violation by the words of its reason and of its rule id; C14 to C18 use *)
(* the same reading, C19 compares it with the category fields.             *)
(***************************************************************************)
Fixed == fixed.op = "apply_fixes" /\ ~fixed.raised

FixedPanel == fixed.value.fixed_panel

Refixed == refixed.op = "apply_fixes" /\ ~refixed.raised

RefixedPanel == refixed.value.fixed_panel

Braced == bracing.op = "get_bracing_elements" /\ ~bracing.raised

Violations == Get(saved_remediation, "violations_with_remediation", <<>>)

Mentions(v, word) == contains(word, lower(Get(v, "reason", "")))

RuleNames(v, word) == contains(word, lower(Get(v, "rule_id", "")))

WindowSupportViolation(v) ==
    Mentions(v, "jack stud") \/ Mentions(v, "header") \/ RuleNames(v, "window_support")

SpacingViolation(v) == Mentions(v, "spacing") \/ RuleNames(v, "stud_spacing")

BracingViolation(v) == Mentions(v, "bracing") \/ Mentions(v, "seismic")

\* C12: apply_fixes never mutates its input: after a call the input PanelData
\* (id, name, stud positions, opening flags, ducts) and the violation list are what
\* they were before it, and the returned panel is another instance whose panel_id
\* is the input panel_id followed by "_FIXED". It is stated for the first call,
\* whose input is the panel, and for the second, whose input is the panel the
\* first call returned.
C12_InputNotMutated ==
    [][/\ (fixed = NotCalled /\ fixed'.op = "apply_fixes" /\ ~fixed'.raised) =>
              /\ panel' = panel
              /\ saved_remediation' = saved_remediation
              /\ fixed'.value.panel_data = panel
              /\ ~fixed'.value.is_input
              /\ fixed'.value.fixed_panel.panel_id = panel.panel_id \o "_FIXED"
       /\ (refixed = NotCalled /\ refixed'.op = "apply_fixes" /\ ~refixed'.raised) =>
              /\ fixed' = fixed
              /\ saved_remediation' = saved_remediation
              /\ ~refixed'.value.is_input
              /\ refixed'.value.fixed_panel.panel_id
                    = fixed.value.fixed_panel.panel_id \o "_FIXED"]_vars

\* a call that moved studs and set window flags in the panel it returned
C12_Witness ==
    /\ Fixed
    /\ Len(Violations) >= 1
    /\ FixedPanel.studs # panel.studs
    /\ FixedPanel.openings # panel.openings
    /\ FixedPanel.ducts = panel.ducts
    /\ panel.panel_id = "P1"
    /\ FixedPanel.panel_id = "P1_FIXED"

\* C13 as stated: for a violation list made of window-support and/or spacing
\* violations, apply_fixes(apply_fixes(panel, v), v) is identical in all fields,
\* panel_id and name included, to apply_fixes(panel, v).
C13_WholePanelFixedPoint ==
    (/\ Refixed
     /\ \A k \in DOMAIN Violations :
           WindowSupportViolation(Violations[k]) \/ SpacingViolation(Violations[k])) =>
        RefixedPanel = FixedPanel

\* C13, amended: for every violation list, applying the fixes to the returned
\* panel again gives a panel equal to it in every field except panel_id and name,
\* each of which gets its suffix a second time.
C13_FixedPointButIdAndName ==
    Refixed =>
        RefixedPanel = [FixedPanel EXCEPT !.panel_id = FixedPanel.panel_id \o "_FIXED",
                                          !.name = FixedPanel.name \o " (After Remediation)"]

\* both fixes were applied by the first call, and the second one renamed the panel
C13_Witness ==
    /\ Refixed
    /\ \E k \in DOMAIN Violations : WindowSupportViolation(Violations[k])
    /\ \E k \in DOMAIN Violations : SpacingViolation(Violations[k])
    /\ FixedPanel.studs # panel.studs
    /\ FixedPanel.openings # panel.openings
    /\ RefixedPanel.studs = FixedPanel.studs
    /\ RefixedPanel.openings = FixedPanel.openings
    /\ RefixedPanel.panel_id = "P1_FIXED_FIXED"

\* C14: when the violation list contains at least one window-support violation,
\* every opening of type window in the returned panel has has_jack_studs = TRUE
\* and has_header = TRUE, the windows that no violation references and the
\* windows at or above the width threshold included.
C14_EveryWindowSupported ==
    (Fixed /\ \E k \in DOMAIN Violations : WindowSupportViolation(Violations[k])) =>
        /\ Len(FixedPanel.openings) = Len(panel.openings)
        /\ \A i \in DOMAIN panel.openings :
              panel.openings[i].opening_type = "window" =>
                  /\ FixedPanel.openings[i].opening_id = panel.openings[i].opening_id
                  /\ FixedPanel.openings[i].opening_type = "window"
                  /\ FixedPanel.openings[i].has_jack_studs = TRUE
                  /\ FixedPanel.openings[i].has_header = TRUE

\* the only violation names window W1; W2, at least as wide as the threshold and
\* without a header in the input, has both flags in the returned panel
C14_Witness ==
    /\ Fixed
    /\ Len(Violations) = 1
    /\ Get(Violations[1], "violation_id", None) = "WINDOW_W1"
    /\ WindowSupportViolation(Violations[1])
    /\ \E i \in DOMAIN panel.openings :
          /\ panel.openings[i].opening_id = "W2"
          /\ panel.openings[i].opening_type = "window"
          /\ panel.openings[i].width_mm >= rules.openings.rules[1].width_threshold_mm
          /\ ~panel.openings[i].has_header
          /\ FixedPanel.openings[i].has_header
          /\ FixedPanel.openings[i].has_jack_studs

\* C15: when the violation list contains at least one spacing violation and the
\* panel has N >= 2 studs, the stud at list index i of the returned panel (i from
\* 0 to N - 1) is at i * width_mm / (N - 1), whatever the positions were; with
\* N < 2 the stud list is returned unchanged.
C15_EvenSpacing ==
    (Fixed /\ \E k \in DOMAIN Violations : SpacingViolation(Violations[k])) =>
        LET N == Len(panel.studs)
        IN  /\ Len(FixedPanel.studs) = N
            /\ N < 2 => FixedPanel.studs = panel.studs
            /\ N >= 2 =>
                  \A i \in 0..(N - 1) :
                      /\ FixedPanel.studs[i + 1].stud_id = panel.studs[i + 1].stud_id
                      /\ FixedPanel.studs[i + 1].position_mm * (N - 1) = i * panel.width_mm
            /\ N = 2 => /\ FixedPanel.studs[1].position_mm = 0
                         /\ FixedPanel.studs[2].position_mm = panel.width_mm

\* four studs listed from the right end up evenly spread from the left
C15_Witness ==
    /\ Fixed
    /\ \E k \in DOMAIN Violations : SpacingViolation(Violations[k])
    /\ Len(panel.studs) = 4
    /\ panel.studs[1].position_mm > panel.studs[2].position_mm
    /\ [i \in 1..4 |-> FixedPanel.studs[i].position_mm] = <<0, 1220, 2440, 3660>>

\* an opening marked corner or starting less than 500 mm from the left edge
AtCornerOrLeftEdge(o) == o.is_corner \/ o.position_mm < 500

HasBracingViolation == \E k \in DOMAIN Violations : BracingViolation(Violations[k])

NearEitherEdge(o, p) ==
    o.position_mm < 500 \/ p.width_mm - (o.position_mm + o.width_mm) < 500

\* C17: whenever bracing is triggered, the annotations are those (opening id,
\* position_mm and width_mm) of exactly the openings that are marked corner or lie
\* within 500 mm of the left or of the right panel edge, in list order; a
\* non-corner opening whose right side is within 500 mm of width_mm is annotated.
C17_EitherEdgeAnnotated ==
    LET p == FixedPanel
        expected == SelectSeq(p.openings, LAMBDA o : o.is_corner \/ NearEitherEdge(o, p))
    IN  (Braced /\ (HasBracingViolation \/ (p.seismic_zone >= 3 /\ expected # <<>>))) =>
            bracing.value =
                [k \in DOMAIN expected |->
                    [type |-> "diagonal_brace", opening_id |-> expected[k].opening_id,
                     position_mm |-> expected[k].position_mm,
                     width_mm |-> expected[k].width_mm]]

\* C18: bracing is visual only: get_bracing_elements leaves the PanelData it is
\* given unchanged, and a violation list consisting only of bracing/seismic
\* violations makes apply_fixes return a panel whose studs, openings, ducts,
\* dimensions and seismic_zone equal the input's.
C18_BracingVisualOnly ==
    [][/\ (bracing = NotCalled /\ bracing'.op = "get_bracing_elements") =>
              (fixed' = fixed /\ panel' = panel)
       /\ (/\ fixed = NotCalled /\ fixed'.op = "apply_fixes" /\ ~fixed'.raised
           /\ Len(Violations) >= 1
           /\ \A k \in DOMAIN Violations : BracingViolation(Violations[k])) =>
              LET out == fixed'.value.fixed_panel
              IN  /\ out.studs = panel.studs
                  /\ out.openings = panel.openings
                  /\ out.ducts = panel.ducts
                  /\ out.width_mm = panel.width_mm
                  /\ out.height_mm = panel.height_mm
                  /\ out.seismic_zone = panel.seismic_zone]_vars

\* the category discriminators of a violation list, element by element
Discriminators(list) ==
    [k \in DOMAIN list |-> <<Get(list[k], "violation_type", None),
                              Get(list[k], "rule_id", None)>>]

\* C19: dispatch is determined by the category discriminator (violation_type,
\* rule_id) of each violation, not by its reason: a violation list that agrees
\* element by element with the given one on violation_type and rule_id gives the
\* same fixed panel from apply_fixes and the same annotations from
\* get_bracing_elements, whatever its reasons are.
C19_DispatchByDiscriminator ==
    (Fixed /\ Braced) =>
        \A other \in ViolationLists :
            Discriminators(other) = Discriminators(Violations) =>
                LET data == [saved_remediation EXCEPT !.violations_with_remediation = other]
                IN  /\ apply_fixes(panel, data).value.fixed_panel = FixedPanel
                    /\ get_bracing_elements(FixedPanel, data).value = bracing.value

\* the places of a list whose record carries no violation id
NoIdPlaces(list) == {k \in DOMAIN list : ~HasKey(list[k], "violation_id")}

\* C20: merging and remediation tolerate partial external records: whatever of
\* violation_id, reason, severity and rule_id a record lacks, merge, apply_fixes
\* and get_bracing_elements return without raising, and a record with no
\* violation_id is kept in the external-only list and counted in
\* total_violations.
C20_PartialRecordsTolerated ==
    /\ merged.op = "merge" =>
          /\ ~merged.raised
          /\ LET only == merged.value.llm_caught_additionally
             IN  /\ Cardinality(NoIdPlaces(only)) = Cardinality(NoIdPlaces(External))
                 /\ \A k \in NoIdPlaces(External) : \E j \in NoIdPlaces(only) :
                       only[j] = External[k]
                 /\ merged.value.total_violations = Len(DetViolations) + Len(only)
                 /\ merged.value.total_violations
                       >= Len(DetViolations) + Cardinality(NoIdPlaces(External))
    /\ fixed.op = "apply_fixes" => ~fixed.raised
    /\ bracing.op = "get_bracing_elements" => ~bracing.raised
    /\ refixed.op = "apply_fixes" => ~refixed.raised

\* a record with nothing but a reason and a record with nothing but an id went
\* through the merger, both calls of the applier and the annotations
C20_Witness ==
    /\ Merged
    /\ Fixed
    /\ Braced
    /\ Refixed
    /\ Len(External) = 2
    /\ DOMAIN External[1] = {"reason"}
    /\ DOMAIN External[2] = {"violation_id"}
    /\ merged.value.llm_caught_additionally = External
    /\ merged.value.total_violations = Len(DetViolations) + 2
    /\ Len(DetViolations) >= 1

(***************************************************************************)
(* Further properties of the rule engine.                                  *)
(***************************************************************************)
DefaultSeverity(f) ==
    CASE f = "stud_spacing" -> "high"
      [] f = "openings" -> "critical"
      [] f = "mep_clearance" -> "high"

ConfiguredSeverity(f) == Get(rules[f].rules[1], "severity", DefaultSeverity(f))

\* the deviation of a spacing violation from the standard spacing
Deviation(v) == Abs(v.actual - v.expected)

\* C23: the severity of every violation the rule engine emits is the severity
\* configured on the rule of its family, high for spacing, critical for opening
\* support and high for duct clearance when the rule has none; it does not depend
\* on the size of the deviation.
C23_SeverityFromConfiguration ==
    (Returned /\ rules \in CompleteRuleTables) =>
        \A f \in DOMAIN rules :
            \A v \in Range(OfType(det_result.value.violations, FamilyType(f))) :
                v.severity = ConfiguredSeverity(f)

\* two spacing violations of one result, one deviating by at most twice the
\* tolerance and one by more, next to a support and a clearance violation
C23_Witness ==
    /\ Returned
    /\ rules \in CompleteRuleTables
    /\ \E v, w \in Range(OfType(det_result.value.violations, "spacing")) :
          /\ Deviation(v) > rules.stud_spacing.tolerance_mm
          /\ Deviation(v) < 2 * rules.stud_spacing.tolerance_mm
          /\ Deviation(w) > 2 * rules.stud_spacing.tolerance_mm
          /\ v.severity = w.severity
          /\ v.severity = "low"
    /\ OfType(det_result.value.violations, "support") # <<>>
    /\ OfType(det_result.value.violations, "clearance") # <<>>

\* C24: degenerate geometry is not an error. For every complete rule table, a
\* panel with fewer than 2 studs yields no spacing violation, one with no
\* openings no support violation, one with no ducts no clearance violation, and
\* a panel with 0 or 1 studs and no openings or ducts evaluates to
\* pass_fail = TRUE without raising.
C24_DegenerateGeometry ==
    (det_result.op = "run_deterministic_checks" /\ rules \in CompleteRuleTables) =>
        /\ Len(panel.studs) < 2 => check_stud_spacing(panel, rules) = Ok(<<>>)
        /\ panel.openings = <<>> => check_window_support(panel, rules) = Ok(<<>>)
        /\ panel.ducts = <<>> => check_duct_clearance(panel, rules) = Ok(<<>>)
        /\ ~det_result.raised
        /\ Len(panel.studs) < 2 => OfType(det_result.value.violations, "spacing") = <<>>
        /\ panel.openings = <<>> => OfType(det_result.value.violations, "support") = <<>>
        /\ panel.ducts = <<>> => OfType(det_result.value.violations, "clearance") = <<>>
        /\ (Len(panel.studs) < 2 /\ panel.openings = <<>> /\ panel.ducts = <<>>) =>
              /\ det_result.value.violations = <<>>
              /\ det_result.value.pass_fail = TRUE

\* a panel that is a single stud passes
C24_Witness ==
    /\ Returned
    /\ rules \in CompleteRuleTables
    /\ Len(panel.studs) = 1
    /\ panel.openings = <<>>
    /\ panel.ducts = <<>>
    /\ det_result.value.pass_fail = TRUE

ViolationIds == [k \in DOMAIN det_result.value.violations |->
                    det_result.value.violations[k].violation_id]

PairwiseDistinct(seq) == \A i, j \in DOMAIN seq : i # j => seq[i] # seq[j]

\* C26: for a panel with pairwise distinct opening ids and pairwise distinct duct
\* ids, the violation ids of the CheckResult are pairwise distinct, so the set of
\* deterministic ids the merger builds has one id per deterministic violation.
C26_DistinctViolationIds ==
    (/\ Returned
     /\ PairwiseDistinct([k \in DOMAIN panel.openings |-> panel.openings[k].opening_id])
     /\ PairwiseDistinct([k \in DOMAIN panel.ducts |-> panel.ducts[k].duct_id])) =>
        /\ PairwiseDistinct(ViolationIds)
        /\ Cardinality(Range(ViolationIds)) = Len(det_result.value.violations)

\* six violations, two of each family, under six ids
C26_Witness ==
    /\ Returned
    /\ Len(det_result.value.violations) = 6
    /\ \A t \in {"spacing", "support", "clearance"} :
          Len(OfType(det_result.value.violations, t)) = 2
    /\ Cardinality(Range(ViolationIds)) = 6

(***************************************************************************)
(* Further properties of the remediation applier.                          *)
(***************************************************************************)
\* every stud of p lies in [0, width_mm]
StudsWithinPanel(p) ==
    \A i \in DOMAIN p.studs :
        le(0, p.studs[i].position_mm) /\ le(p.studs[i].position_mm, p.width_mm)

HasSpacingViolation == \E k \in DOMAIN Violations : SpacingViolation(Violations[k])

\* C25: remediation preserves the stud invariant position_mm in [0, width_mm]:
\* when every stud of the input panel satisfies it, every stud of the panel
\* apply_fixes returns satisfies it, for any violation list; and after a spacing
\* fix of a panel with at least two studs the positions are non-decreasing in
\* list order, the first at 0 and the last at width_mm.
C25_StudsStayWithinPanel ==
    (Fixed /\ StudsWithinPanel(panel)) =>
        /\ StudsWithinPanel(FixedPanel)
        /\ (HasSpacingViolation /\ Len(panel.studs) >= 2) =>
              LET N == Len(FixedPanel.studs)
              IN  /\ \A i \in 1..(N - 1) :
                        le(FixedPanel.studs[i].position_mm, FixedPanel.studs[i + 1].position_mm)
                  /\ eq(FixedPanel.studs[1].position_mm, 0)
                  /\ eq(FixedPanel.studs[N].position_mm, FixedPanel.width_mm)

\* C28: for every violation list, apply_fixes changes at most panel_id, name,
\* stud positions and the support flags of windows: the number, order and ids of
\* the studs, each stud's width and depth, every door's flags, every opening's id,
\* type, position, width, height and corner mark, the ducts, width_mm, height_mm
\* and seismic_zone of the returned panel are those of the input.
C28_FrameOfApplyFixes ==
    Fixed =>
        /\ Len(FixedPanel.studs) = Len(panel.studs)
        /\ \A i \in DOMAIN panel.studs :
              /\ FixedPanel.studs[i].stud_id = panel.studs[i].stud_id
              /\ FixedPanel.studs[i].width_mm = panel.studs[i].width_mm
              /\ FixedPanel.studs[i].depth_mm = panel.studs[i].depth_mm
        /\ Len(FixedPanel.openings) = Len(panel.openings)
        /\ \A i \in DOMAIN panel.openings :
              /\ [FixedPanel.openings[i] EXCEPT !.has_jack_studs = FALSE, !.has_header = FALSE]
                    = [panel.openings[i] EXCEPT !.has_jack_studs = FALSE, !.has_header = FALSE]
              /\ panel.openings[i].opening_type # "window" =>
                    FixedPanel.openings[i] = panel.openings[i]
        /\ FixedPanel.ducts = panel.ducts
        /\ FixedPanel.width_mm = panel.width_mm
        /\ FixedPanel.height_mm = panel.height_mm
        /\ FixedPanel.seismic_zone = panel.seismic_zone

\* both fixes ran on a panel with an unframed door, which stays unframed next to
\* a window that got its flags
C28_Witness ==
    /\ Fixed
    /\ HasSpacingViolation
    /\ FixedPanel.studs # panel.studs
    /\ \E i, j \in DOMAIN panel.openings :
          /\ panel.openings[i].opening_type = "door"
          /\ ~FixedPanel.openings[i].has_jack_studs /\ ~FixedPanel.openings[i].has_header
          /\ panel.openings[j].opening_type = "window"
          /\ ~panel.openings[j].has_jack_studs
          /\ FixedPanel.openings[j].has_jack_studs

\* the remediation record with another violation list
WithViolations(list) == [saved_remediation EXCEPT !.violations_with_remediation = list]

\* the lists that are list in another order
Reordered(list) == {[i \in DOMAIN list |-> list[f[i]]] : f \in Permutations(DOMAIN list)}

\* the lists that are list with one of its violations once more, at any place
Repeated(list) ==
    {SubSeq(list, 1, k) \o <<list[j]>> \o SubSeq(list, k + 1, Len(list)) :
        j \in DOMAIN list, k \in 0..Len(list)}

\* C29: the panel apply_fixes returns does not depend on the order or the
\* multiplicity of the violations: a reordered list, and a list with one of the
\* violations repeated, give a fixed panel equal to that of the list itself.
C29_OrderAndMultiplicity ==
    (Fixed /\ HasKey(saved_remediation, "violations_with_remediation")) =>
        \A list \in Reordered(Violations) \cup Repeated(Violations) :
            apply_fixes(panel, WithViolations(list)) = Ok([fixed.value EXCEPT !.panel_data = panel])

\* a spacing violation listed before a violation that triggers the window fix
\* only, both fixes applied
C29_Witness ==
    /\ Fixed
    /\ Len(Violations) = 2
    /\ SpacingViolation(Violations[1]) /\ ~WindowSupportViolation(Violations[1])
    /\ WindowSupportViolation(Violations[2]) /\ ~SpacingViolation(Violations[2])
    /\ FixedPanel.studs # panel.studs
    /\ FixedPanel.openings # panel.openings
    /\ apply_fixes(panel, WithViolations(<<Violations[2], Violations[1]>>)).value.fixed_panel
          = FixedPanel
    /\ apply_fixes(panel, WithViolations(<<Violations[1], Violations[2], Violations[1]>>))
          .value.fixed_panel = FixedPanel

\* C30: re-application is a fixed point on geometry: the studs (ids and
\* positions), the openings (support flags included) and the ducts of
\* apply_fixes(apply_fixes(panel, v), v) are those of apply_fixes(panel, v), for
\* every panel and violation list v.
C30_GeometryFixedPoint ==
    Refixed =>
        /\ RefixedPanel.studs = FixedPanel.studs
        /\ RefixedPanel.openings = FixedPanel.openings
        /\ RefixedPanel.ducts = FixedPanel.ducts

\* studs listed from the right were spread by the first call and stay where
\* they are in the second
C30_Witness ==
    /\ Refixed
    /\ HasSpacingViolation
    /\ Len(panel.studs) >= 3
    /\ panel.studs[1].position_mm > panel.studs[2].position_mm
    /\ FixedPanel.studs[1].position_mm < FixedPanel.studs[2].position_mm
    /\ RefixedPanel.studs = FixedPanel.studs
    /\ \E i \in DOMAIN panel.openings :
          ~panel.openings[i].has_header /\ RefixedPanel.openings[i].has_header

(***************************************************************************)
(* The checks run again on the fixed panel.                                *)
(***************************************************************************)
Rechecked == rechecked.op = "run_deterministic_checks" /\ ~rechecked.raised

Reported == to_dict(det_result.value).violations

\* C21: after apply_fixes is given all the violations run_deterministic_checks
\* reported for a panel, run_deterministic_checks with the same rules on the
\* returned panel reports no violations and pass_fail = TRUE.
C21_FixedPanelPassesAllChecks ==
    (rechecked.op = "run_deterministic_checks" /\ Violations = Reported) =>
        /\ ~rechecked.raised
        /\ rechecked.value.violations = <<>>
        /\ rechecked.value.pass_fail = TRUE

\* the violations check_window_support emits for the input panel
SupportFindings == Range(check_window_support(panel, rules).value)

\* C27: every violation check_window_support emits triggers the window fix: when
\* the list passed to apply_fixes contains a violation check_window_support
\* produced, check_window_support on the returned panel yields no violations.
C27_WindowFindingsAreFixed ==
    (Fixed /\ \E k \in DOMAIN Violations : Violations[k] \in SupportFindings) =>
        /\ check_window_support(FixedPanel, rules) = Ok(<<>>)
        /\ Rechecked => OfType(rechecked.value.violations, "support") = <<>>

\* one of two window findings, under a rule id that does not name window
\* support, was passed alone; the fixed panel has no finding left
C27_Witness ==
    /\ Rechecked
    /\ ~contains("window_support", lower(rules.openings.rules[1].id))
    /\ Cardinality(SupportFindings) = 2
    /\ Len(Violations) = 1
    /\ Violations[1] \in SupportFindings
    /\ check_window_support(FixedPanel, rules) = Ok(<<>>)
    /\ OfType(rechecked.value.violations, "support") = <<>>

(***************************************************************************)
(* Concurrent workers.                                                     *)
(***************************************************************************)
\* the results of the calls of worker w run alone on its panel of the batch
AloneChecks(w) == run_deterministic_checks(ConcurrentBatch[worker[w].job], MetricRules)

AloneMerge(w) == merge(to_dict(AloneChecks(w).value), worker[w].answer)

AloneFixes(w) ==
    apply_fixes(ConcurrentBatch[worker[w].job],
                remediation_data_of(ConcurrentBatch[worker[w].job], worker[w].answer))

\* every result a worker holds is the result of that call run alone
ResultsAsAlone ==
    \A w \in DOMAIN worker :
        /\ worker[w].det_result.op = "run_deterministic_checks" =>
              worker[w].det_result = Called("run_deterministic_checks", AloneChecks(w))
        /\ worker[w].merged.op = "merge" =>
              worker[w].merged = Called("merge", AloneMerge(w))
        /\ worker[w].fixed.op = "apply_fixes" =>
              /\ ~worker[w].fixed.raised
              /\ worker[w].fixed.value.fixed_panel = AloneFixes(w).value.fixed_panel
              /\ ~worker[w].fixed.value.is_input

\* no step writes a panel of the batch, the rule table or a violation list
InputsUntouched ==
    /\ batch' = batch
    /\ rules' = rules
    /\ \A w \in DOMAIN worker : worker'[w].answer = worker[w].answer

\* C22: for any number of panels processed by concurrent workers, in every
\* interleaving each worker's run_deterministic_checks, merge and apply_fixes
\* result equals the result of that call run alone, and no call modifies its
\* input panel, the rule table or a violation list.
C22_WorkersIndependent == []ResultsAsAlone /\ [][InputsUntouched]_vars

\* worker 1 has fixed the panel that worker 2 is still checking: worker 2 found
\* the spacing violations of the panel as it was given
C22_Witness ==
    /\ worker # <<>>
    /\ worker[1].job = worker[2].job
    /\ worker[1].pc = "done"
    /\ worker[1].fixed.value.fixed_panel.studs # batch[worker[1].job].studs
    /\ worker[2].pc = "support"
    /\ worker[2].spacing.value # <<>>
    /\ batch = ConcurrentBatch

====
